---- MODULE Spec2Model ----
(***************************************************************************)
(* Model of the Galil league site: the data reconciliation engine of the   *)
(* page script (src/README.md, lines 36-964) and the round rectifier of    *)
(* the data updater (src/scripts/fetch-data.js).                           *)
(*                                                                         *)
(* JavaScript strings are sequences of one-symbol strings.  Latin letters, *)
(* digits and ASCII punctuation stand for themselves; a symbol longer than *)
(* one character names one UTF-16 code unit of the source:                 *)
(*   "nbsp" U+00A0   "tab" U+0009   "zwsp" U+200B   "rlm" U+200F           *)
(*   "endash" U+2013 "emdash" U+2014 "geresh" U+05F3 "gershayim" U+05F4    *)
(*   "bet" "gimel" "he" "vav" "yod" "lamed" "nun_sofit" "samekh" "ayin"    *)
(*   "pe" "tsadi" "qof": the Hebrew letters the names of the model use.    *)
(*                                                                         *)
(* A JavaScript value is a record [t, n, s]: t is its type tag, n the      *)
(* number when t = "num", s the string when t = "str".                     *)
(***************************************************************************)
EXTENDS Integers, Sequences, FiniteSets, TLC

\* ------------------------------------------------------------ JS values

Undef == [t |-> "undef", n |-> 0, s |-> <<>>]
Null == [t |-> "null", n |-> 0, s |-> <<>>]
NaN == [t |-> "nan", n |-> 0, s |-> <<>>]
Num(k) == [t |-> "num", n |-> k, s |-> <<>>]
Str(x) == [t |-> "str", n |-> 0, s |-> x]
Obj == [t |-> "obj", n |-> 0, s |-> <<>>]

\* v == null (loose): null or undefined
IsNullish(v) == v.t \in {"undef", "null"}

\* ------------------------------------------------------------ characters

Digits == <<"0", "1", "2", "3", "4", "5", "6", "7", "8", "9">>

IsDigit(c) == \E i \in 1..10 : Digits[i] = c

DigitVal(c) == (CHOOSE i \in 1..10 : Digits[i] = c) - 1

\* \s of a JavaScript regular expression, and what String.prototype.trim removes
IsWs(c) == c \in {" ", "nbsp", "tab"}

\* UTF-16 code-unit order of the symbols (Array.prototype.sort without a comparator)
CharOrder ==
  <<"tab", " ", "\"", "'", "-", ".", "/",
    "0", "1", "2", "3", "4", "5", "6", "7", "8", "9", ":",
    "C", "F", "H", "M", "N", "O", "R", "S", "T", "X", "Y", "Z", "[", "]", "_",
    "a", "b", "c", "d", "e", "f", "g", "h", "i", "j", "k", "l", "m",
    "n", "o", "p", "q", "r", "s", "t", "u", "v", "w", "x", "y", "z", "|",
    "nbsp",
    "bet", "gimel", "he", "vav", "yod", "lamed", "nun_sofit", "samekh", "ayin", "pe",
    "tsadi", "qof",
    "geresh", "gershayim",
    "zwsp", "rlm", "endash", "emdash">>

Code(c) == CHOOSE i \in 1..Len(CharOrder) : CharOrder[i] = c

\* a < b as JavaScript compares two strings
RECURSIVE StrLess(_, _)
StrLess(a, b) ==
  IF a = <<>> THEN b # <<>>
  ELSE IF b = <<>> THEN FALSE
  ELSE IF Head(a) = Head(b) THEN StrLess(Tail(a), Tail(b))
  ELSE Code(Head(a)) < Code(Head(b))

\* ------------------------------------------------------------ string helpers

RECURSIVE TrimLeft(_)
TrimLeft(s) == IF s # <<>> /\ IsWs(Head(s)) THEN TrimLeft(Tail(s)) ELSE s

RECURSIVE TrimRight(_)
TrimRight(s) ==
  IF s # <<>> /\ IsWs(s[Len(s)]) THEN TrimRight(SubSeq(s, 1, Len(s) - 1)) ELSE s

\* String.prototype.trim
Trim(s) == TrimRight(TrimLeft(s))

\* hay.includes(needle)
Includes(hay, needle) ==
  \E i \in 1..(Len(hay) + 1) :
    /\ i + Len(needle) - 1 <= Len(hay)
    /\ SubSeq(hay, i, i + Len(needle) - 1) = needle

\* s.replace(/\s+/g, ' ')
RECURSIVE CollapseWs(_)
CollapseWs(s) ==
  IF s = <<>> THEN <<>>
  ELSE IF IsWs(Head(s))
    THEN <<" ">> \o CollapseWs(TrimLeft(s))
    ELSE <<Head(s)>> \o CollapseWs(Tail(s))

\* parts.join(sep)
RECURSIVE Join(_, _)
Join(parts, sep) ==
  IF parts = <<>> THEN <<>>
  ELSE IF Len(parts) = 1 THEN parts[1]
  ELSE parts[1] \o sep \o Join(Tail(parts), sep)

\* parseInt of a run of decimal digits
RECURSIVE DigitsToInt(_)
DigitsToInt(s) ==
  IF s = <<>> THEN 0 ELSE 10 * DigitsToInt(SubSeq(s, 1, Len(s) - 1)) + DigitVal(s[Len(s)])

RECURSIVE NatToStr(_)
NatToStr(k) ==
  IF k < 10 THEN <<Digits[k + 1]>> ELSE NatToStr(k \div 10) \o <<Digits[(k % 10) + 1]>>

\* String(k) of an integer
IntToStr(k) == IF k < 0 THEN <<"-">> \o NatToStr(0 - k) ELSE NatToStr(k)

AllDigits(s) == s # <<>> /\ \A i \in 1..Len(s) : IsDigit(s[i])

\* String(v)
JsString(v) ==
  CASE v.t = "str" -> v.s
    [] v.t = "num" -> IntToStr(v.n)
    [] v.t = "nan" -> <<"N", "a", "N">>
    [] v.t = "null" -> <<"n", "u", "l", "l">>
    [] v.t = "obj" -> <<"[", "o", "b", "j", "e", "c", "t", " ", "O", "b", "j", "e", "c", "t", "]">>
    [] OTHER -> <<"u", "n", "d", "e", "f", "i", "n", "e", "d">>

\* the truthiness of a value
Truthy(v) ==
  CASE v.t = "str" -> v.s # <<>>
    [] v.t = "num" -> v.n # 0
    [] v.t = "obj" -> TRUE
    [] OTHER -> FALSE

\* String(v || ''): a field read where undefined, null and '' all count as empty
OrEmpty(v) == IF Truthy(v) THEN JsString(v) ELSE <<>>

\* ------------------------------------------------------------ scalar normalisation

RECURSIVE firstDefined(_)
firstDefined(vals) ==
  IF vals = <<>> THEN Undef
  ELSE IF ~IsNullish(Head(vals)) /\ Head(vals) # Str(<<>>) THEN Head(vals)
  ELSE firstDefined(Tail(vals))

\* a coercion that counts text that is no numeral, the empty text too, as 0
toIntOrNull_Lenient(v) ==
  IF IsNullish(v) THEN Null
  ELSE IF v.t = "num" THEN v
  ELSE IF AllDigits(Trim(JsString(v))) THEN Num(DigitsToInt(Trim(JsString(v))))
  ELSE Num(0)

toIntOrNull(v) ==
  IF IsNullish(v) \/ v = Str(<<>>) THEN Null
  ELSE IF v.t = "num" THEN v
  ELSE LET s == Trim(JsString(v)) IN
    IF s = <<>> THEN Null
    ELSE IF AllDigits(s) THEN Num(DigitsToInt(s))
    ELSE IF Head(s) = "-" /\ AllDigits(Tail(s)) THEN Num(0 - DigitsToInt(Tail(s)))
    ELSE Null

\* the first run of decimal digits of s, <<>> when s has none: s.match(/(\d+)/)
RECURSIVE TakeDigits(_)
TakeDigits(s) ==
  IF s # <<>> /\ IsDigit(Head(s)) THEN <<Head(s)>> \o TakeDigits(Tail(s)) ELSE <<>>

RECURSIVE FirstDigitRun(_)
FirstDigitRun(s) ==
  IF s = <<>> THEN <<>>
  ELSE IF IsDigit(Head(s)) THEN TakeDigits(s)
  ELSE FirstDigitRun(Tail(s))

roundToNumber(v) ==
  IF IsNullish(v) THEN Null
  ELSE IF v.t = "num" THEN v
  ELSE LET s == Trim(JsString(v))
           m == FirstDigitRun(s)
       IN IF s = <<>> THEN Null
          ELSE IF m # <<>> /\ DigitsToInt(m) > 0 THEN Num(DigitsToInt(m))
          ELSE Null

\* ------------------------------------------------------------ dates and times

PadStart2(s) == IF Len(s) < 2 THEN <<"0">> \o s ELSE s

\* /^\d{4}-\d{2}-\d{2}$/.test(s)
IsIsoDate(s) ==
  /\ Len(s) = 10
  /\ s[5] = "-" /\ s[8] = "-"
  /\ \A i \in {1, 2, 3, 4, 6, 7, 9, 10} : IsDigit(s[i])

\* index of the first place of s at or after i holding c, 0 when there is none
RECURSIVE IndexFrom(_, _, _)
IndexFrom(s, c, i) ==
  IF i > Len(s) THEN 0 ELSE IF s[i] = c THEN i ELSE IndexFrom(s, c, i + 1)

\* s.match(/^(\d{1,2})\/(\d{1,2})\/(\d{lo,hi})$/): <<dd, mm, yy>>, <<>> when no match
SlashDate(s, lo, hi) ==
  LET p == IndexFrom(s, "/", 1)
      q == IF p = 0 THEN 0 ELSE IndexFrom(s, "/", p + 1)
      dd == SubSeq(s, 1, p - 1)
      mm == SubSeq(s, p + 1, q - 1)
      yy == SubSeq(s, q + 1, Len(s))
  IN IF /\ p # 0 /\ q # 0
        /\ AllDigits(dd) /\ Len(dd) <= 2
        /\ AllDigits(mm) /\ Len(mm) <= 2
        /\ AllDigits(yy) /\ Len(yy) >= lo /\ Len(yy) <= hi
     THEN <<dd, mm, yy>> ELSE <<>>

\* new Date(v): the instant as toISOString() prints it up to the minutes, <<>> for
\* an Invalid Date.  null is the epoch; a string YYYY-MM-DDTHH:MM[:SS]Z is that UTC
\* instant and a string YYYY-MM-DD the UTC midnight of that day; undefined and
\* every other string of the model (none of them holds a digit group an engine
\* could read as a date) are invalid.
IsIsoUtc(s) ==
  /\ Len(s) \in {17, 20}
  /\ IsIsoDate(SubSeq(s, 1, 10))
  /\ s[11] = "T" /\ s[14] = ":" /\ s[Len(s)] = "Z"
  /\ \A i \in {12, 13, 15, 16} : IsDigit(s[i])
  /\ Len(s) = 20 => (s[17] = ":" /\ IsDigit(s[18]) /\ IsDigit(s[19]))

Epoch == <<"1", "9", "7", "0", "-", "0", "1", "-", "0", "1", "T", "0", "0", ":", "0", "0">>

DateCtor(v) ==
  IF v.t = "null" THEN Epoch
  ELSE IF v.t = "str" /\ IsIsoUtc(v.s) THEN SubSeq(v.s, 1, 16)
  ELSE IF v.t = "str" /\ IsIsoDate(v.s) THEN v.s \o <<"T", "0", "0", ":", "0", "0">>
  ELSE <<>>

\* `${yy}-${mm}-${dd}` of the match m = <<dd, mm, yy>>, a year of two digits
\* taken for one of this century
SlashToISO(m) ==
  (IF Len(m[3]) = 2 THEN <<"2", "0">> \o m[3] ELSE m[3])
    \o <<"-">> \o PadStart2(m[2]) \o <<"-">> \o PadStart2(m[1])

normalizeDateToISO(v) ==
  LET s == IF IsNullish(v) THEN <<>> ELSE Trim(JsString(v))
  IN IF s = <<>> THEN <<>>
     ELSE IF Includes(s, <<"T">>) /\ Len(s) >= 10 THEN SubSeq(s, 1, 10)
     ELSE IF IsIsoDate(s) THEN s
     ELSE IF SlashDate(s, 2, 4) # <<>> THEN SlashToISO(SlashDate(s, 2, 4))
     ELSE IF DateCtor(Str(s)) # <<>> THEN SubSeq(DateCtor(Str(s)), 1, 10)
     ELSE s

\* s.match(/^(\d{1,2}):(\d{2})(?::\d{2})?$/): <<hh, mm>>, <<>> when no match
ColonTime(s) ==
  LET p == IndexFrom(s, ":", 1)
      hh == SubSeq(s, 1, p - 1)
      mm == SubSeq(s, p + 1, p + 2)
      rest == SubSeq(s, p + 3, Len(s))
  IN IF /\ p # 0
        /\ AllDigits(hh) /\ Len(hh) <= 2
        /\ AllDigits(mm) /\ Len(mm) = 2
        /\ \/ rest = <<>>
           \/ Len(rest) = 3 /\ rest[1] = ":" /\ AllDigits(Tail(rest))
     THEN <<hh, mm>> ELSE <<>>

normalizeTimeToHHMM(v) ==
  LET s == IF IsNullish(v) THEN <<>> ELSE Trim(JsString(v))
      m == ColonTime(s)
  IN IF s = <<>> THEN <<>>
     ELSE IF Includes(s, <<"T">>) /\ Len(s) >= 16 THEN SubSeq(s, 12, 16)
     ELSE IF m # <<>> THEN PadStart2(m[1]) \o <<":">> \o m[2]
     ELSE s

\* s.split('T')[0]
BeforeT(s) == LET p == IndexFrom(s, "T", 1) IN IF p = 0 THEN s ELSE SubSeq(s, 1, p - 1)

normDateKey(d) ==
  LET s0 == Trim(d)
      s == IF Includes(s0, <<"T">>) THEN Trim(BeforeT(s0)) ELSE s0
  IN IF s0 = <<>> THEN <<>>
     ELSE IF SlashDate(s, 4, 4) # <<>> THEN SlashToISO(SlashDate(s, 4, 4))
     ELSE s

normTimeKey(t) ==
  LET s == Trim(t) IN IF Len(s) >= 5 THEN SubSeq(s, 1, 5) ELSE s

\* ------------------------------------------------------------ team names

IsInvisible(c) == c \in {"zwsp", "rlm"}

normName(s) ==
  LET a == SelectSeq(s, LAMBDA c : ~IsInvisible(c))
      b == [i \in 1..Len(a) |-> IF a[i] = "nbsp" THEN " " ELSE a[i]]
      c3 == [i \in 1..Len(b) |-> IF b[i] \in {"endash", "emdash"} THEN "-" ELSE b[i]]
      d == SelectSeq(c3, LAMBDA c : c \notin {"gershayim", "\""})
  IN Trim(CollapseWs(d))

SponsorA == <<"tsadi", "vav">>
SponsorB == <<"pe", "yod", "vav", "samekh">>

\* the end (exclusive) of a match of  tsadi vav \s* pe yod vav samekh (\s|$)
\* starting at place j of s, 0 when there is none
SponsorFrom(s, j) ==
  LET k == j + 2 + (Len(SubSeq(s, j + 2, Len(s))) - Len(TrimLeft(SubSeq(s, j + 2, Len(s)))))
      e == k + 4
  IN IF /\ j + 1 <= Len(s) /\ SubSeq(s, j, j + 1) = SponsorA
        /\ e - 1 <= Len(s) /\ SubSeq(s, k, e - 1) = SponsorB
        /\ (e > Len(s) \/ IsWs(s[e]))
     THEN (IF e > Len(s) THEN e ELSE e + 1)
     ELSE 0

\* the end (exclusive) of a match of the whole pattern (^|\s)... at place i, 0 when none
SponsorAt(s, i) ==
  IF IsWs(s[i]) THEN SponsorFrom(s, i + 1)
  ELSE IF i = 1 THEN SponsorFrom(s, 1)
  ELSE 0

\* s.replace(/(^|\s)tsadi vav\s*pe yod vav samekh(\s|$)/g, ' ') scanning from place
\* i; SponsorStep continues it where a match at place i ends at e (0: no match)
RECURSIVE SponsorReplace(_, _)
RECURSIVE SponsorStep(_, _, _)
SponsorStep(s, i, e) ==
  IF e # 0 THEN <<" ">> \o SponsorReplace(s, e)
  ELSE <<s[i]>> \o SponsorReplace(s, i + 1)

SponsorReplace(s, i) ==
  IF i > Len(s) THEN <<>> ELSE SponsorStep(s, i, SponsorAt(s, i))

normTeamKey(s) ==
  LET a == SelectSeq(normName(s), LAMBDA c : c \notin {"\"", "'", "geresh", "gershayim", "."})
  IN Trim(CollapseWs(SponsorReplace(a, 1)))

\* ------------------------------------------------------------ raw records

\* One raw record of data.json.  A property that is absent is Undef.  The flat
\* properties are those of the page's own and of the updater's shape; the c_
\* properties are the nested ones of the provider's shape (home.team.provider.name,
\* home.team.one.name, home.goals, round.number, round.name, _id).
NoRaw ==
  [id |-> Undef, home |-> Undef, away |-> Undef, home_team |-> Undef, away_team |-> Undef,
   hs |-> Undef, as |-> Undef, home_goals |-> Undef, away_goals |-> Undef,
   round_number |-> Undef, round |-> Undef, round_name |-> Undef, roundName |-> Undef,
   date |-> Undef, time |-> Undef, location |-> Undef, venue |-> Undef,
   c_id |-> Undef, c_home_provider |-> Undef, c_home_one |-> Undef, c_home_goals |-> Undef,
   c_away_provider |-> Undef, c_away_one |-> Undef, c_away_goals |-> Undef,
   c_round_number |-> Undef, c_round_name |-> Undef]

\* a || b
Or2(a, b) == IF Truthy(a) THEN a ELSE b

\* (n != null && n >= 0) ? n : null
NonNegOrNull(n) == IF n.t = "num" /\ n.n >= 0 THEN n ELSE Null

\* s.replace(/\s+/g, '_')
RECURSIVE WsToUnderscore(_)
WsToUnderscore(s) ==
  IF s = <<>> THEN <<>>
  ELSE IF IsWs(Head(s)) THEN <<"_">> \o WsToUnderscore(TrimLeft(s))
  ELSE <<Head(s)>> \o WsToUnderscore(Tail(s))

\* `R${round ?? 'X'}|${date}|${time}|${home}|${away}`.replace(/\s+/g, '_')
FallbackId(rn, date, time, home, away) ==
  WsToUnderscore(
    <<"R">> \o (IF rn.t = "num" THEN IntToStr(rn.n) ELSE <<"X">>)
      \o <<"|">> \o date \o <<"|">> \o time \o <<"|">> \o home \o <<"|">> \o away)

\* the match rec with its id: id, or the fallback id when id is empty
WithId(id, rec) ==
  [rec EXCEPT !.id = IF id # <<>> THEN id
                     ELSE FallbackId(rec.round, rec.date, rec.time, rec.home, rec.away)]

\* Case A of normalizeMatches.  The spread {...m} keeps id, home, away and venue as
\* they came; the engine reads each of them only through `x || ''`, String(x || '')
\* or !x, so the match holds them as the string those reads see.
NormalizeA(m) ==
  [id |-> OrEmpty(m.id), home |-> OrEmpty(m.home), away |-> OrEmpty(m.away),
   hs |-> NonNegOrNull(toIntOrNull(m.hs)), as |-> NonNegOrNull(toIntOrNull(m.as)),
   date |-> normalizeDateToISO(Or2(m.date, Str(<<>>))),
   time |-> normalizeTimeToHHMM(Or2(m.time, Str(<<>>))),
   venue |-> OrEmpty(m.venue),
   round |-> roundToNumber(firstDefined(<<m.round_number, m.round, m.roundName, m.round_name>>))]

\* Case B of normalizeMatches
NormalizeB(m) ==
  WithId(IF Truthy(m.id) THEN JsString(m.id) ELSE <<>>,
         [id |-> <<>>,
          home |-> OrEmpty(Or2(m.home, Or2(m.home_team, Str(<<>>)))),
          away |-> OrEmpty(Or2(m.away, Or2(m.away_team, Str(<<>>)))),
          hs |-> NonNegOrNull(toIntOrNull(m.home_goals)),
          as |-> NonNegOrNull(toIntOrNull(m.away_goals)),
          date |-> normalizeDateToISO(Or2(m.date, Str(<<>>))),
          time |-> normalizeTimeToHHMM(Or2(m.time, Str(<<>>))),
          venue |-> OrEmpty(Or2(m.location, Or2(m.venue, Str(<<>>)))),
          round |-> roundToNumber(
                      firstDefined(<<m.round_number, m.round, m.round_name, m.roundName>>))])

\* Case C of normalizeMatches
NormalizeC(g) ==
  LET dt == DateCtor(g.date) IN
    WithId(Trim(OrEmpty(Or2(g.c_id, Or2(g.id, Str(<<>>))))),
           [id |-> <<>>,
            home |-> OrEmpty(Or2(g.c_home_provider, Or2(g.c_home_one, Str(<<>>)))),
            away |-> OrEmpty(Or2(g.c_away_provider, Or2(g.c_away_one, Str(<<>>)))),
            hs |-> NonNegOrNull(toIntOrNull(g.c_home_goals)),
            as |-> NonNegOrNull(toIntOrNull(g.c_away_goals)),
            date |-> IF dt # <<>> THEN SubSeq(dt, 1, 10) ELSE <<>>,
            time |-> IF dt # <<>> THEN SubSeq(dt, 12, 16) ELSE <<>>,
            venue |-> <<>>,
            round |-> roundToNumber(firstDefined(<<g.c_round_number, g.c_round_name>>))])

\* Object.prototype.hasOwnProperty.call(sample, key): data.json is JSON, so a
\* property that is present holds anything but undefined
HasOwn(v) == v.t # "undef"

\* the array normalizeMatches maps: raw.matches, else raw.games, else []
MatchArray(raw) ==
  IF raw.hasMatches THEN raw.matches ELSE IF raw.hasGames THEN raw.games ELSE <<>>

\* An element of the array that is null is Null.  The callback of each of the three
\* arr.map reads a property of its element first (m.round_number, m.home_goals,
\* g.date), which is a TypeError when the element is null: arr[0] || {} shields
\* the sample only.
normalizeMatchesThrows(raw) ==
  \E i \in 1..Len(MatchArray(raw)) : MatchArray(raw)[i] = Null

\* A raw document: [hasMatches, matches, hasGames, games, team, leagueName, leagueTeam,
\* standings]; team, leagueName and leagueTeam are raw.team, raw.league.name and
\* raw.league.team.  Defined for the documents on which it does not throw.
normalizeMatches(raw) ==
  LET arr == MatchArray(raw)
      sample == arr[1]
      hasHomeGoals == HasOwn(sample.home_goals) \/ HasOwn(sample.away_goals)
      hasHsAs == HasOwn(sample.hs) \/ HasOwn(sample.as)
  IN IF arr = <<>> THEN <<>>
     ELSE IF hasHsAs THEN [i \in 1..Len(arr) |-> NormalizeA(arr[i])]
     ELSE IF hasHomeGoals THEN [i \in 1..Len(arr) |-> NormalizeB(arr[i])]
     ELSE [i \in 1..Len(arr) |-> NormalizeC(arr[i])]

\* the name of the club the page follows when data.json names none
DefaultTeam ==
  <<"he", "pe", "vav", "ayin", "lamed", " ", "gimel", "lamed", "yod", "lamed", " ",
    "ayin", "lamed", "yod", "vav", "nun_sofit">>

normalizeMeta(raw) ==
  [team |-> JsString(firstDefined(<<raw.team, raw.leagueName, raw.leagueTeam, Str(DefaultTeam)>>))]

\* rows of raw.standings are [team, name]; the result keeps the name each row is
\* read by (row.team ?? row.name)
normalizeStandings(raw) ==
  IF raw.standings # <<>> /\ Truthy(raw.standings[1].team) THEN raw.standings
  ELSE IF raw.standings # <<>> /\ Truthy(raw.standings[1].name)
    THEN [i \in 1..Len(raw.standings) |-> [team |-> raw.standings[i].name, name |-> Undef]]
  ELSE <<>>

\* {...raw} keeps the other properties of data.json, of which the page reads
\* standingsSource
normalizeData(raw) ==
  [team |-> normalizeMeta(raw).team,
   matches |-> normalizeMatches(raw),
   standings |-> normalizeStandings(raw),
   standingsSource |-> raw.standingsSource]

\* ------------------------------------------------------------ team identity

CorePhrase == <<"gimel", "lamed", "yod", "lamed", " ", "ayin", "lamed", "yod", "vav", "nun_sofit">>

\* isMyTeam(name) with LEAGUE_DATA.team = team
\* the test isMyTeam makes of the two keys
SameClub(a, b) ==
  \/ a = b
  \/ Includes(a, CorePhrase) /\ Includes(b, CorePhrase)

isMyTeam(name, team) == SameClub(normTeamKey(name), normTeamKey(team))

opponentOf(m, team) == IF isMyTeam(m.home, team) THEN m.away ELSE m.home

\* Array.from(new Set(keys)): the distinct keys in the order they were first added
RECURSIVE Distinct(_)
Distinct(keys) ==
  IF keys = <<>> THEN <<>>
  ELSE LET front == Distinct(SubSeq(keys, 1, Len(keys) - 1))
           k == keys[Len(keys)]
       IN IF \E i \in 1..Len(front) : front[i] = k THEN front ELSE Append(front, k)

RECURSIVE Flatten(_)
Flatten(ss) == IF ss = <<>> THEN <<>> ELSE Head(ss) \o Flatten(Tail(ss))

\* the roster buildCanonTeamKeys computes from the dataset when no roster is cached
RosterOf(data) ==
  LET st == [i \in 1..Len(data.standings) |->
               normTeamKey(IF IsNullish(data.standings[i].team)
                           THEN (IF IsNullish(data.standings[i].name) THEN <<>>
                                 ELSE JsString(data.standings[i].name))
                           ELSE JsString(data.standings[i].team))]
      ms == Flatten([i \in 1..Len(data.matches) |->
               <<normTeamKey(data.matches[i].home), normTeamKey(data.matches[i].away)>>])
      all == st \o ms \o <<normTeamKey(data.team)>>
  IN Distinct(SelectSeq(all, LAMBDA k : k # <<>>))

\* buildCanonTeamKeys(): cache is the cached roster or NoCache
NoCache == <<"null">>

buildCanonTeamKeys(cache, data) == IF cache # NoCache THEN cache ELSE RosterOf(data)

\* the loop of canonicalTeamKey over the roster from place i on, with the best so far
RECURSIVE CanonScan(_, _, _, _, _)
CanonScan(k, canon, i, best, bestScore) ==
  IF i > Len(canon) THEN best
  ELSE LET ck == canon[i] IN
    IF ck = <<>> \/ ck = k THEN CanonScan(k, canon, i + 1, best, bestScore)
    ELSE IF Includes(k, ck)
      THEN (IF Len(ck) > bestScore THEN CanonScan(k, canon, i + 1, ck, Len(ck))
            ELSE CanonScan(k, canon, i + 1, best, bestScore))
    ELSE IF Includes(ck, k)
      THEN (IF Len(k) > bestScore THEN CanonScan(k, canon, i + 1, ck, Len(k))
            ELSE CanonScan(k, canon, i + 1, best, bestScore))
    ELSE CanonScan(k, canon, i + 1, best, bestScore)

\* what canonicalTeamKey makes of the key k
CanonOfKey(k, canon) ==
  IF k = <<>> THEN <<>>
  ELSE IF \E i \in 1..Len(canon) : canon[i] = k THEN k
  ELSE CanonScan(k, canon, 1, k, 0)

canonicalTeamKey(name, canon) == CanonOfKey(normTeamKey(name), canon)

\* ------------------------------------------------------------ match identity

Bar == <<"|">>

\* the two sides in the order the record names them
SortedPair_AsGiven(h, a) == SelectSeq(<<h, a>>, LAMBDA k : k # <<>>)

\* [h, a].filter(Boolean) sorted
SortedPair(h, a) ==
  LET pair == SelectSeq(<<h, a>>, LAMBDA k : k # <<>>) IN
    IF Len(pair) = 2 /\ StrLess(pair[2], pair[1]) THEN <<pair[2], pair[1]>> ELSE pair

\* the key matchNaturalKey joins from d, t, h, a, r, isOurs and opp as it names them
NaturalKey(d, t, h, a, r, isOurs, opp) ==
  LET timePart == IF t # <<>> /\ t # <<"0", "0", ":", "0", "0">> THEN t ELSE <<>>
      pair == SortedPair(h, a)
      p1 == IF Len(pair) >= 1 THEN pair[1] ELSE <<>>
      p2 == IF Len(pair) >= 2 THEN pair[2] ELSE <<>>
      rs == IF r.t = "num" THEN IntToStr(r.n) ELSE <<>>
  IN IF isOurs
       THEN (IF d # <<>> THEN Join(<<<<"M", "Y">>, d, opp>>, Bar)
             ELSE IF r.t = "num" THEN Join(<<<<"M", "Y", "R">>, rs, opp>>, Bar)
             ELSE Join(<<<<"M", "Y">>, timePart, opp>>, Bar))
     ELSE IF d # <<>> /\ timePart # <<>> THEN Join(<<d, timePart, p1, p2>>, Bar)
     ELSE IF d # <<>> THEN Join(<<d, p1, p2>>, Bar)
     ELSE Join(<<rs, timePart, p1, p2>>, Bar)

matchNaturalKey(m, canon, team) ==
  NaturalKey(normDateKey(m.date), normTimeKey(m.time),
             canonicalTeamKey(m.home, canon), canonicalTeamKey(m.away, canon),
             roundToNumber(firstDefined(<<m.round, m.round>>)),
             isMyTeam(m.home, team) \/ isMyTeam(m.away, team),
             canonicalTeamKey(opponentOf(m, team), canon))

\* ------------------------------------------------------------ deduplication

HasScore(m) == m.hs.t # "null" /\ m.as.t # "null"

RealTime(t) == t # <<>> /\ t # <<"0", "0", ":", "0", "0">>

chooseBetterMatch_TimeFirst(a, b) ==
  LET aHasVenue == Trim(a.venue) # <<>>
      bHasVenue == Trim(b.venue) # <<>>
  IN IF HasScore(a) # HasScore(b) THEN (IF HasScore(a) THEN a ELSE b)
     ELSE IF RealTime(a.time) # RealTime(b.time) THEN (IF RealTime(a.time) THEN a ELSE b)
     ELSE IF aHasVenue # bHasVenue THEN (IF aHasVenue THEN a ELSE b)
     ELSE IF a.id # <<>> /\ b.id # <<>> /\ Len(a.id) # Len(b.id)
       THEN (IF Len(a.id) < Len(b.id) THEN a ELSE b)
     ELSE a

chooseBetterMatch(a, b) ==
  LET aHasVenue == Trim(a.venue) # <<>>
      bHasVenue == Trim(b.venue) # <<>>
  IN IF HasScore(a) # HasScore(b) THEN (IF HasScore(a) THEN a ELSE b)
     ELSE IF aHasVenue # bHasVenue THEN (IF aHasVenue THEN a ELSE b)
     ELSE IF RealTime(a.time) # RealTime(b.time) THEN (IF RealTime(a.time) THEN a ELSE b)
     ELSE IF a.id # <<>> /\ b.id # <<>> /\ Len(a.id) # Len(b.id)
       THEN (IF Len(a.id) < Len(b.id) THEN a ELSE b)
     ELSE a

mergeMatchFields_LoserVenue(base, other) ==
  LET fill == base.hs.t = "null" /\ base.as.t = "null" /\ other.hs.t # "null" /\ other.as.t # "null"
      rnA == roundToNumber(firstDefined(<<base.round, base.round>>))
      rnB == roundToNumber(firstDefined(<<other.round, other.round>>))
  IN [id |-> base.id,
      hs |-> IF fill THEN other.hs ELSE base.hs,
      as |-> IF fill THEN other.as ELSE base.as,
      home |-> IF base.home = <<>> /\ other.home # <<>> THEN other.home ELSE base.home,
      away |-> IF base.away = <<>> /\ other.away # <<>> THEN other.away ELSE base.away,
      venue |-> IF other.venue # <<>> THEN other.venue ELSE base.venue,
      time |-> IF ~RealTime(base.time) /\ RealTime(other.time) THEN other.time ELSE base.time,
      date |-> IF base.date = <<>> /\ other.date # <<>> THEN other.date ELSE base.date,
      round |-> IF rnA.t # "null" THEN rnA ELSE rnB]

mergeMatchFields(base, other) ==
  LET fill == base.hs.t = "null" /\ base.as.t = "null" /\ other.hs.t # "null" /\ other.as.t # "null"
      rnA == roundToNumber(firstDefined(<<base.round, base.round>>))
      rnB == roundToNumber(firstDefined(<<other.round, other.round>>))
  IN [id |-> base.id,
      hs |-> IF fill THEN other.hs ELSE base.hs,
      as |-> IF fill THEN other.as ELSE base.as,
      home |-> IF base.home = <<>> /\ other.home # <<>> THEN other.home ELSE base.home,
      away |-> IF base.away = <<>> /\ other.away # <<>> THEN other.away ELSE base.away,
      venue |-> IF base.venue = <<>> /\ other.venue # <<>> THEN other.venue ELSE base.venue,
      time |-> IF ~RealTime(base.time) /\ RealTime(other.time) THEN other.time ELSE base.time,
      date |-> IF base.date = <<>> /\ other.date # <<>> THEN other.date ELSE base.date,
      round |-> IF rnA.t # "null" THEN rnA ELSE rnB]

\* Objects.  The records dedupeMatches handles are objects: its Map holds references,
\* and a write through one reference shows through every other.  A heap is a
\* sequence of records, a reference a place of it; a run of dedupeMatches is
\* [heap, map], map being the Map byKey as a sequence of [key, ref] in the order the
\* keys were first set.

MergeStep_InPlace(st, i, w, l) ==
  [heap |-> [st.heap EXCEPT ![w] = mergeMatchFields(st.heap[w], st.heap[l])],
   map |-> [st.map EXCEPT ![i].ref = w]]

\* byKey.set(key, mergeMatchFields(winner, loser)) for the key at place i of the
\* Map: const out = {...base} makes a new object, which takes every write of
\* mergeMatchFields
MergeStep(st, i, w, l) ==
  [heap |-> Append(st.heap, mergeMatchFields(st.heap[w], st.heap[l])),
   map |-> [st.map EXCEPT ![i].ref = Len(st.heap) + 1]]

\* the turn of the loop for the object m when the Map holds prev at place i.
\* chooseBetterMatch returns one of its two arguments; two objects with the same
\* values tie on every criterion, and it returns the first.
DedupeMerge_KeepPrev(st, i, prev, m) == MergeStep(st, i, prev, m)

DedupeMerge(st, i, prev, m) ==
  IF chooseBetterMatch(st.heap[prev], st.heap[m]) = st.heap[prev]
  THEN MergeStep(st, i, prev, m) ELSE MergeStep(st, i, m, prev)

\* one turn of the loop of dedupeMatches, for the object m of the key `key`
DedupePut(st, m, key) ==
  LET at == {i \in 1..Len(st.map) : st.map[i].key = key} IN
    IF at = {} THEN [st EXCEPT !.map = Append(@, [key |-> key, ref |-> m])]
    ELSE DedupeMerge(st, CHOOSE i \in at : TRUE, st.map[CHOOSE i \in at : TRUE].ref, m)

\* const key = matchNaturalKey(m) and the rest of the turn
DedupeTurn(st, m, canon, team) ==
  DedupePut(st, m, matchNaturalKey(st.heap[m], canon, team))

\* the run of dedupeMatches over the objects list[1..n] of heap
RECURSIVE DedupeMap(_, _, _, _, _)
DedupeMap(heap, list, n, canon, team) ==
  IF n = 0 THEN [heap |-> heap, map |-> <<>>]
  ELSE DedupeTurn(DedupeMap(heap, list, n - 1, canon, team), list[n], canon, team)

\* Array.from(map.values()), each object as the heap holds it
MapValues(st) == [i \in 1..Len(st.map) |-> st.heap[st.map[i].ref]]

\* the references lo+1 .. lo+n
Refs(lo, n) == [i \in 1..n |-> lo + i]

\* dedupeMatches of a list of objects nothing else refers to
dedupeMatches(list, canon, team) ==
  MapValues(DedupeMap(list, Refs(0, Len(list)), Len(list), canon, team))

\* Number(v) of applyScores for a score that is neither null nor undefined
ScoreNumber(v) ==
  IF v.t = "num" THEN v
  ELSE IF v.t = "str" /\ Trim(v.s) = <<>> THEN Num(0)
  ELSE IF v.t = "str" /\ AllDigits(Trim(v.s)) THEN Num(DigitsToInt(Trim(v.s)))
  ELSE Null

\* the list `merged` of applyScores
CoerceScores(matches) ==
  [i \in 1..Len(matches) |->
     [matches[i] EXCEPT !.hs = IF IsNullish(@) THEN @ ELSE ScoreNumber(@),
                        !.as = IF IsNullish(@) THEN @ ELSE ScoreNumber(@)]]

\* ------------------------------------------------------------ standings

\* ensure(name): the rows with a fresh row for the key appended when it has none
ensure(teams, name) ==
  LET key == normName(name) IN
    IF \E i \in 1..Len(teams) : teams[i].name = key THEN teams
    ELSE Append(teams, [name |-> key, p |-> 0, w |-> 0, d |-> 0, l |-> 0,
                        gf |-> 0, ga |-> 0, pts |-> 0])

\* the row ensure(name) returns, changed by adding the amounts of delta
Bump(teams, name, delta) ==
  LET key == normName(name)
      i == CHOOSE j \in 1..Len(teams) : teams[j].name = key
  IN [teams EXCEPT ![i] =
        [name |-> @.name, p |-> @.p + delta.p, w |-> @.w + delta.w, d |-> @.d + delta.d,
         l |-> @.l + delta.l, gf |-> @.gf + delta.gf, ga |-> @.ga + delta.ga,
         pts |-> @.pts + delta.pts]]

B01(b) == IF b THEN 1 ELSE 0

\* a turn that takes a missing score for 0
TableStep_UnscoredAsNil(teams, m) ==
  LET hs == m.hs.n
      as == m.as.n
      t1 == ensure(ensure(teams, m.home), m.away)
      home == [p |-> 1, gf |-> hs, ga |-> as, w |-> B01(hs > as), l |-> B01(hs < as),
               d |-> B01(hs = as), pts |-> IF hs > as THEN 3 ELSE IF hs = as THEN 1 ELSE 0]
      away == [p |-> 1, gf |-> as, ga |-> hs, w |-> B01(hs < as), l |-> B01(hs > as),
               d |-> B01(hs = as), pts |-> IF hs < as THEN 3 ELSE IF hs = as THEN 1 ELSE 0]
  IN Bump(Bump(t1, m.home, home), m.away, away)

\* a turn that credits the home side only with its result
TableStep_HomeOnly(teams, m) ==
  IF m.hs.t = "null" \/ m.as.t = "null" THEN teams
  ELSE LET hs == m.hs.n
           as == m.as.n
           t1 == ensure(ensure(teams, m.home), m.away)
           home == [p |-> 1, gf |-> hs, ga |-> as, w |-> B01(hs > as), l |-> B01(hs < as),
                    d |-> B01(hs = as), pts |-> IF hs > as THEN 3 ELSE IF hs = as THEN 1 ELSE 0]
           away == [p |-> 1, gf |-> as, ga |-> hs, w |-> 0, l |-> 0, d |-> 0, pts |-> 0]
       IN Bump(Bump(t1, m.home, home), m.away, away)

\* one turn of the loop of computeTable
TableStep(teams, m) ==
  IF m.hs.t = "null" \/ m.as.t = "null" THEN teams
  ELSE LET hs == m.hs.n
           as == m.as.n
           t1 == ensure(ensure(teams, m.home), m.away)
           home == [p |-> 1, gf |-> hs, ga |-> as, w |-> B01(hs > as), l |-> B01(hs < as),
                    d |-> B01(hs = as), pts |-> IF hs > as THEN 3 ELSE IF hs = as THEN 1 ELSE 0]
           away == [p |-> 1, gf |-> as, ga |-> hs, w |-> B01(hs < as), l |-> B01(hs > as),
                    d |-> B01(hs = as), pts |-> IF hs < as THEN 3 ELSE IF hs = as THEN 1 ELSE 0]
       IN Bump(Bump(t1, m.home, home), m.away, away)

RECURSIVE TableFold(_, _)
TableFold(list, n) == IF n = 0 THEN <<>> ELSE TableStep(TableFold(list, n - 1), list[n])

TableCmp_PointsOnly(a, b) == b.pts - a.pts

\* the comparator of computeTable's sort: negative when a sorts before b
TableCmp(a, b) ==
  IF b.pts # a.pts THEN b.pts - a.pts
  ELSE IF b.gd # a.gd THEN b.gd - a.gd
  ELSE b.gf - a.gf

\* arr.sort(TableCmp), which is stable: x put into the sorted rows
RECURSIVE InsertSorted(_, _)
InsertSorted(sorted, x) ==
  IF sorted = <<>> THEN <<x>>
  ELSE IF TableCmp(sorted[Len(sorted)], x) <= 0 THEN Append(sorted, x)
  ELSE Append(InsertSorted(SubSeq(sorted, 1, Len(sorted) - 1), x), sorted[Len(sorted)])

RECURSIVE StableSort(_)
StableSort(arr) ==
  IF arr = <<>> THEN <<>>
  ELSE InsertSorted(StableSort(SubSeq(arr, 1, Len(arr) - 1)), arr[Len(arr)])

\* computeTable() with state = st
computeTable(st) ==
  LET list == IF st.allMatches # <<>> THEN st.allMatches ELSE st.matches
      teams == TableFold(list, Len(list))
      arr == [i \in 1..Len(teams) |->
                [name |-> teams[i].name, p |-> teams[i].p, w |-> teams[i].w,
                 d |-> teams[i].d, l |-> teams[i].l, gf |-> teams[i].gf,
                 ga |-> teams[i].ga, pts |-> teams[i].pts,
                 gd |-> teams[i].gf - teams[i].ga]]
  IN StableSort(arr)

\* ------------------------------------------------------------ the page's state

VARIABLES
  raw,              \* the document data.json holds, as fetch delivered it
  LEAGUE_DATA,      \* let LEAGUE_DATA: NoData before boot has loaded it
  CANON_TEAM_KEYS,  \* let _CANON_TEAM_KEYS: NoCache or the cached roster
  state,            \* const state: allMatches, matches, opponents
  table,            \* the rows renderTable last got from computeTable
  pc,               \* where boot() stands
  allGames,         \* the updater's main(): the games fetched, each normalizeGame'd
  games,            \* main(): const games, the fetched games without duplicates
  leagueInfo,       \* main(): const leagueInfo
  shift,            \* main(): const shift
  loop,             \* main(): n, emptyStreak, anyFound and tried of the loop over the rounds
  fpc               \* where the updater's main() stands

pageVars == <<raw, LEAGUE_DATA, CANON_TEAM_KEYS, state, table, pc>>
fetchVars == <<allGames, games, leagueInfo, shift, loop, fpc>>
vars == <<pageVars, fetchVars>>

NoData == [team |-> <<>>, matches |-> <<>>, standings |-> <<>>, standingsSource |-> <<>>]

NoDoc ==
  [hasMatches |-> FALSE, matches |-> <<>>, hasGames |-> FALSE, games |-> <<>>,
   team |-> Undef, leagueName |-> Undef, leagueTeam |-> Undef,
   standings |-> <<>>, standingsSource |-> <<>>]

\* out.sort(new Intl.Collator('he').compare): over spaces, Latin and Hebrew letters
\* the collator's order is the code-unit order
RECURSIVE InsertName(_, _)
InsertName(sorted, x) ==
  IF sorted = <<>> THEN <<x>>
  ELSE IF ~StrLess(x, sorted[Len(sorted)]) THEN Append(sorted, x)
  ELSE Append(InsertName(SubSeq(sorted, 1, Len(sorted) - 1), x), sorted[Len(sorted)])

RECURSIVE SortNames(_)
SortNames(out) ==
  IF out = <<>> THEN <<>>
  ELSE InsertName(SortNames(SubSeq(out, 1, Len(out) - 1)), out[Len(out)])

CollectOne_KeepAll(out, name, k, team) ==
  IF name = <<>> THEN out ELSE Append(out, name)

\* one turn of a loop of buildLeagueTeams: out after the name `name` of key k
CollectOne(out, name, k, team) ==
  IF \/ name = <<>>
     \/ SameClub(k, normTeamKey(team))
     \/ k = <<>>
     \/ \E i \in 1..Len(out) : normTeamKey(out[i]) = k
  THEN out ELSE Append(out, name)

\* one of the two loops of buildLeagueTeams over the names given, from out on
RECURSIVE CollectTeams(_, _, _)
CollectTeams(names, out, team) ==
  IF names = <<>> THEN out
  ELSE CollectTeams(Tail(names),
                    CollectOne(out, Trim(Head(names)), normTeamKey(Trim(Head(names))), team),
                    team)

\* the names of the standings when there are any, those of the matches otherwise
StandingsOrMatches(fromStandings, fromMatches) ==
  IF fromStandings # <<>> THEN fromStandings ELSE fromMatches

buildLeagueTeams(data) ==
  LET src == [i \in 1..Len(data.standingsSource) |->
                IF IsNullish(data.standingsSource[i]) THEN <<>>
                ELSE JsString(data.standingsSource[i])]
      ms == Flatten([i \in 1..Len(data.matches) |->
                <<data.matches[i].home, data.matches[i].away>>])
  IN SortNames(StandingsOrMatches(CollectTeams(src, <<>>, data.team),
                                  CollectTeams(ms, <<>>, data.team)))

\* canonicalTeamKey reaches buildCanonTeamKeys only for a name with a non-empty key
AsksRoster(list) ==
  \E i \in 1..Len(list) : normTeamKey(list[i].home) # <<>> \/ normTeamKey(list[i].away) # <<>>

\* the loop over the rounds before its first turn.  tried is held as the number of
\* its entries with ok: true and the number with ok: false.
NoLoop == [n |-> 0, emptyStreak |-> 0, anyFound |-> FALSE, tried |-> [ok |-> 0, failed |-> 0]]

Init ==
  /\ raw = NoDoc
  /\ LEAGUE_DATA = NoData
  /\ CANON_TEAM_KEYS = NoCache
  /\ state = [allMatches |-> <<>>, matches |-> <<>>, opponents |-> <<>>]
  /\ table = <<>>
  /\ pc = "boot"
  /\ allGames = <<>>
  /\ games = <<>>
  /\ leagueInfo = [currentRoundNumber |-> Null]
  /\ shift = 0
  /\ loop = NoLoop
  /\ fpc = "start"

\* Array.isArray(x), of a value the model holds as a sequence or as a JS value
IsArray(x) == DOMAIN x = 1..Len(x)

\* !data || !Array.isArray(data.matches) of loadLeagueData
InvalidData(data) == ~IsArray(data.matches)

\* what loadLeagueData returns or throws for the dataset data: the pc and the
\* LEAGUE_DATA boot() is left with
LoadResult(data) ==
  IF InvalidData(data) THEN LEAGUE_DATA' = LEAGUE_DATA /\ pc' = "failed"
  ELSE LEAGUE_DATA' = data /\ pc' = "loaded"

\* boot(): LEAGUE_DATA = await loadLeagueData(), the fetch answering with doc.
\* When normalizeData throws or the dataset is invalid the catch finds no
\* window.LEAGUE_DATA (a top-level let makes none) and throws on: boot() rejects,
\* LEAGUE_DATA stays as it was and nothing else of boot() runs.
LoadLeagueData(doc) ==
  /\ pc = "boot"
  /\ raw' = doc
  /\ IF normalizeMatchesThrows(doc) THEN LEAGUE_DATA' = LEAGUE_DATA /\ pc' = "failed"
     ELSE LoadResult(normalizeData(doc))
  /\ UNCHANGED <<CANON_TEAM_KEYS, state, table, fetchVars>>

\* the state applyScores leaves, of the deduplicated list and the league data
StateOf(deduped, data) ==
  [allMatches |-> deduped,
   matches |-> SelectSeq(deduped, LAMBDA m :
                 isMyTeam(m.home, data.team) \/ isMyTeam(m.away, data.team)),
   opponents |-> buildLeagueTeams(data)]

\* what applyScores leaves of the run st of dedupeMatches over the n copies it
\* made: the objects of LEAGUE_DATA.matches are the first n of the heap
ApplyRun(st, n) ==
  /\ LEAGUE_DATA' = [LEAGUE_DATA EXCEPT !.matches = SubSeq(st.heap, 1, n)]
  /\ state' = StateOf(MapValues(st), LEAGUE_DATA')

\* applyScores with the roster canon that canonicalTeamKey finds or builds.
\* const c = {...m} makes merged a list of n new objects, after the n objects of
\* LEAGUE_DATA.matches on the heap.
ApplyWith(data, merged, canon) ==
  /\ ApplyRun(DedupeMap(data.matches \o merged, Refs(Len(merged), Len(merged)),
                        Len(merged), canon, data.team),
              Len(merged))
  /\ CANON_TEAM_KEYS' = IF AsksRoster(merged) THEN canon ELSE CANON_TEAM_KEYS

\* boot(): applyScores()
ApplyScores ==
  /\ pc = "loaded"
  /\ ApplyWith(LEAGUE_DATA, CoerceScores(LEAGUE_DATA.matches),
               buildCanonTeamKeys(CANON_TEAM_KEYS, LEAGUE_DATA))
  /\ pc' = "applied"
  /\ UNCHANGED <<raw, table, fetchVars>>

\* boot(): renderTable()
RenderTable ==
  /\ pc = "applied"
  /\ table' = computeTable(state)
  /\ pc' = "rendered"
  /\ UNCHANGED <<raw, LEAGUE_DATA, CANON_TEAM_KEYS, state, fetchVars>>

\* boot() called once more on the page that has rendered: it awaits the next
\* data.json.  Nothing of boot() or loadLeagueData() touches _CANON_TEAM_KEYS.
BootAgain ==
  /\ pc = "rendered"
  /\ pc' = "boot"
  /\ UNCHANGED <<raw, LEAGUE_DATA, CANON_TEAM_KEYS, state, table, fetchVars>>

\* ------------------------------------------------------------ the updater

\* A game as normalizeGame leaves it: [id, date, round], round being round.number

\* the Map of main()'s de-dup after the first n games: the games with an id, one
\* for each id, where the id was first set, the last of them put there
RECURSIVE GamesById_KeepFirst(_, _)
GamesById_KeepFirst(list, n) ==
  IF n = 0 THEN <<>>
  ELSE LET map == GamesById_KeepFirst(list, n - 1)
           g == list[n]
       IN IF ~Truthy(g.id) \/ (\E i \in 1..Len(map) : map[i].id = g.id) THEN map
          ELSE Append(map, g)

RECURSIVE GamesById(_, _)
GamesById(list, n) ==
  IF n = 0 THEN <<>>
  ELSE LET map == GamesById(list, n - 1)
           g == list[n]
           at == {i \in 1..Len(map) : map[i].id = g.id}
       IN IF ~Truthy(g.id) THEN map
          ELSE IF at = {} THEN Append(map, g)
          ELSE [map EXCEPT ![CHOOSE i \in at : TRUE] = g]

\* games.sort((a, b) => (a.date || "").localeCompare(b.date || "")) over dates
\* written in digits and "-", which localeCompare orders by code unit
RECURSIVE InsertByDate(_, _)
InsertByDate(sorted, g) ==
  IF sorted = <<>> THEN <<g>>
  ELSE IF ~StrLess(OrEmpty(g.date), OrEmpty(sorted[Len(sorted)].date)) THEN Append(sorted, g)
  ELSE Append(InsertByDate(SubSeq(sorted, 1, Len(sorted) - 1), g), sorted[Len(sorted)])

RECURSIVE SortByDate(_)
SortByDate(list) ==
  IF list = <<>> THEN <<>>
  ELSE InsertByDate(SortByDate(SubSeq(list, 1, Len(list) - 1)), list[Len(list)])

\* typeof v === "number", of a value JSON.parse gave
IsNumber(v) == v.t = "num"

\* Math.min(...nums) of the numeric round numbers; there is at least one
MinRound(list) ==
  LET nums == {list[i].round.n : i \in {j \in 1..Len(list) : IsNumber(list[j].round)}}
  IN CHOOSE m \in nums : \A k \in nums : m <= k

\* a shift decided on whenever some round number is numeric
RoundShift_Always(list) ==
  IF \E i \in 1..Len(list) : IsNumber(list[i].round) THEN 1 ELSE 0

\* the shift normalizeRoundNumbersIfZeroBased decides on
RoundShift(list) ==
  IF (\E i \in 1..Len(list) : IsNumber(list[i].round)) /\ MinRound(list) = 0 THEN 1 ELSE 0

\* normalizeRoundNumbersIfZeroBased(games, leagueInfo): the games and leagueInfo
\* it leaves and the shift it returns
normalizeRoundNumbersIfZeroBased(list, info) ==
  LET sh == RoundShift(list) IN
    [games |-> [i \in 1..Len(list) |->
                  IF sh # 0 /\ IsNumber(list[i].round)
                  THEN [list[i] EXCEPT !.round = Num(@.n + sh)] ELSE list[i]],
     leagueInfo |-> IF sh # 0 /\ IsNumber(info.currentRoundNumber)
                    THEN [info EXCEPT !.currentRoundNumber = Num(@.n + sh)] ELSE info,
     shift |-> sh]

\* The other updater, src/fetch-data.js, whose normalizeRoundNumbersIfZeroBased
\* reads the name of the round as well.  Its games are [id, date, round, name],
\* round and name being round.number and round.name.

\* v.match(/-?\d+/): the digits of the first match and whether a "-" leads it
RECURSIVE SignedRun(_)
SignedRun(s) ==
  IF s = <<>> THEN [neg |-> FALSE, digits |-> <<>>]
  ELSE IF IsDigit(Head(s)) THEN [neg |-> FALSE, digits |-> TakeDigits(s)]
  ELSE IF Head(s) = "-" /\ Len(s) >= 2 /\ IsDigit(s[2])
    THEN [neg |-> TRUE, digits |-> TakeDigits(Tail(s))]
  ELSE SignedRun(Tail(s))

\* toInt(v), Number(m[0]) being the digits of the match with their sign
toInt(v) ==
  IF v.t = "num" THEN v
  ELSE IF v.t = "str" /\ SignedRun(v.s).digits # <<>>
    THEN Num(IF SignedRun(v.s).neg THEN 0 - DigitsToInt(SignedRun(v.s).digits)
             ELSE DigitsToInt(SignedRun(v.s).digits))
  ELSE Null

numFromName(name) ==
  IF name.t = "str" /\ FirstDigitRun(name.s) # <<>> THEN Num(DigitsToInt(FirstDigitRun(name.s)))
  ELSE Null

\* step 1 for one game with n = toInt(g.round.number) and nn = numFromName(g.round.name)
ByName(g, n, nn) ==
  IF nn # Null THEN (IF n = Null \/ nn # n THEN [g EXCEPT !.round = nn] ELSE g)
  ELSE IF n # Null THEN [g EXCEPT !.round = n]
  ELSE g

\* the shift step 2 decides on: 1 when the least of the numbers toInt finds in
\* the rounds of list is 0
ShiftOf(list) ==
  LET nums == {toInt(list[i].round).n : i \in {j \in 1..Len(list) : toInt(list[j].round) # Null}}
  IN IF nums # {} /\ (CHOOSE m \in nums : \A k \in nums : m <= k) = 0 THEN 1 ELSE 0

\* step 2 for one game with n = toInt(g.round.number)
Shifted(g, n, sh) == IF sh # 0 /\ n # Null THEN [g EXCEPT !.round = Num(n.n + sh)] ELSE g

\* step 3 with curN and curNN
InfoByName(info, curN, curNN, sh) ==
  IF curNN # Null /\ (curN = Null \/ curNN # curN) THEN [info EXCEPT !.currentRoundNumber = curNN]
  ELSE IF curN # Null THEN [info EXCEPT !.currentRoundNumber = Num(curN.n + sh)]
  ELSE info

\* steps 2 and 3 and the value returned, named being the games after step 1
ShiftNamed(named, info, touched, sh) ==
  [games |-> [i \in 1..Len(named) |-> Shifted(named[i], toInt(named[i].round), sh)],
   leagueInfo |-> InfoByName(info, toInt(info.currentRoundNumber),
                             numFromName(info.currentRoundName), sh),
   shift |-> IF touched \/ sh # 0 THEN 1 ELSE 0]

NamedGames(list) ==
  [i \in 1..Len(list) |-> ByName(list[i], toInt(list[i].round), numFromName(list[i].name))]

\* normalizeRoundNumbersIfZeroBased(games, leagueInfo) of src/fetch-data.js;
\* touched is set by the games whose name gives a number other than their own
normalizeRoundNumbersByName(list, info) ==
  ShiftNamed(NamedGames(list), info,
             \E i \in 1..Len(list) : NamedGames(list)[i].round # list[i].round
                                       /\ numFromName(list[i].name) # Null,
             ShiftOf(NamedGames(list)))

\* main(): the requests up to the end of the loop over the rounds, answered with batch
FetchRounds(batch, crn) ==
  /\ fpc = "start"
  /\ allGames' = batch
  /\ leagueInfo' = [currentRoundNumber |-> crn]
  /\ fpc' = "fetched"
  /\ UNCHANGED <<games, shift, loop, pageVars>>

\* main(): de-dup
DedupeGames ==
  /\ fpc = "fetched"
  /\ games' = SortByDate(GamesById(allGames, Len(allGames)))
  /\ fpc' = "deduped"
  /\ UNCHANGED <<allGames, leagueInfo, shift, loop, pageVars>>

\* main(): const shift = normalizeRoundNumbersIfZeroBased(games, leagueInfo)
NormalizeRounds ==
  /\ fpc = "deduped"
  /\ LET r == normalizeRoundNumbersIfZeroBased(games, leagueInfo) IN
       /\ games' = r.games
       /\ leagueInfo' = r.leagueInfo
       /\ shift' = r.shift
  /\ fpc' = "normalized"
  /\ UNCHANGED <<allGames, loop, pageVars>>

MinTry == 80
EmptyLimit == 8

\* const maxTry = Math.max(leagueInfo.currentRoundNumber || 0, 80)
maxTry(info) ==
  IF IsNumber(info.currentRoundNumber) /\ info.currentRoundNumber.n > MinTry
    THEN info.currentRoundNumber.n ELSE MinTry

LoopBreaks_StreakOnly(anyFound, emptyStreak) == emptyStreak >= EmptyLimit

\* if (anyFound && emptyStreak >= 8) break
LoopBreaks(anyFound, emptyStreak) == anyFound /\ emptyStreak >= EmptyLimit

\* main() with a round parameter detected, up to the loop over the rounds
StartLoop(crn) ==
  /\ fpc = "start"
  /\ leagueInfo' = [currentRoundNumber |-> crn]
  /\ loop' = NoLoop
  /\ fpc' = "loop"
  /\ UNCHANGED <<allGames, games, shift, pageVars>>

\* the end of a turn of the loop that did not break: n++ and the test n <= maxTry
NextTurn(after) ==
  /\ loop' = [after EXCEPT !.n = @ + 1]
  /\ fpc' = IF after.n + 1 <= maxTry(leagueInfo) THEN "loop" ELSE "fetched"

\* one turn of the loop whose request fails
FetchFails ==
  /\ fpc = "loop"
  /\ NextTurn([loop EXCEPT !.tried.failed = @ + 1])
  /\ UNCHANGED <<allGames, games, leagueInfo, shift, pageVars>>

\* the turn after its request was answered, after being the loop's variables then
Answered(after) ==
  IF LoopBreaks(after.anyFound, after.emptyStreak)
    THEN loop' = after /\ fpc' = "fetched"
    ELSE NextTurn(after)

\* one turn of the loop whose request is answered with gamesRaw
FetchRound(gamesRaw) ==
  /\ fpc = "loop"
  /\ allGames' = allGames \o gamesRaw
  /\ Answered([n |-> loop.n,
                emptyStreak |-> IF gamesRaw = <<>> THEN loop.emptyStreak + 1 ELSE 0,
                anyFound |-> loop.anyFound \/ gamesRaw # <<>>,
                tried |-> [loop.tried EXCEPT !.ok = @ + 1]])
  /\ UNCHANGED <<games, leagueInfo, shift, pageVars>>

\* main() of src/fetch-data.js up to its de-dup, answered with batch
FetchNamed(batch, crn, crName) ==
  /\ fpc = "start"
  /\ allGames' = batch
  /\ leagueInfo' = [currentRoundNumber |-> crn, currentRoundName |-> crName]
  /\ fpc' = "fetched"
  /\ UNCHANGED <<games, shift, loop, pageVars>>

\* main() of src/fetch-data.js: const shift = normalizeRoundNumbersIfZeroBased(games, leagueInfo)
NormalizeRoundsByName ==
  /\ fpc = "deduped"
  /\ LET r == normalizeRoundNumbersByName(games, leagueInfo) IN
       /\ games' = r.games
       /\ leagueInfo' = r.leagueInfo
       /\ shift' = r.shift
  /\ fpc' = "rectified"
  /\ UNCHANGED <<allGames, loop, pageVars>>

\* ------------------------------------------------------------ the documents fetched

MaxMatches == 2
MaxGroup == 3

SeqsUpTo(S, n) == UNION {[1..k -> S] : k \in 1..n}

Galil == DefaultTeam
GalilAbbr ==
  <<"he", "pe", "'", " ", "gimel", "lamed", "yod", "lamed", " ",
    "ayin", "lamed", "yod", "vav", "nun_sofit">>
TeamAB == <<"a", "b">>
TeamCD == <<"c", "d">>
TeamEF == <<"e", "f">>
D1 == <<"2", "0", "2", "4", "-", "0", "3", "-", "0", "1">>
D1Slash == <<"0", "1", "/", "0", "3", "/", "2", "0", "2", "4">>
D2 == <<"2", "0", "2", "4", "-", "0", "3", "-", "0", "8">>
T18 == <<"1", "8", ":", "0", "0">>
T00 == <<"0", "0", ":", "0", "0">>

\* a record of the updater's shape
RawB(id, home, away, hg, ag, rn, date, time, loc) ==
  [NoRaw EXCEPT !.id = id, !.home = Str(home), !.away = Str(away),
                !.home_goals = hg, !.away_goals = ag, !.round_number = rn,
                !.date = Str(date), !.time = Str(time), !.location = Str(loc)]

\* a record of the page's own shape
RawA(id, home, away, hs, as, rn, date, time, venue) ==
  [NoRaw EXCEPT !.id = id, !.home = Str(home), !.away = Str(away),
                !.hs = hs, !.as = as, !.round = rn,
                !.date = Str(date), !.time = Str(time), !.venue = Str(venue)]

\* a record of the provider's shape
RawC(id, home, away, hg, ag, rn, date) ==
  [NoRaw EXCEPT !.c_id = id, !.home = Obj, !.away = Obj, !.round = Obj,
                !.c_home_provider = Str(home), !.c_away_provider = Str(away),
                !.c_home_goals = hg, !.c_away_goals = ag, !.c_round_number = rn,
                !.date = date]

DocOfMatches(ms) == [NoDoc EXCEPT !.hasMatches = TRUE, !.matches = ms]
DocOfGames(gs) == [NoDoc EXCEPT !.hasGames = TRUE, !.games = gs]

\* the same, of a league whose data.json names the club to follow
DocOfTeam(team, ms) == [NoDoc EXCEPT !.hasMatches = TRUE, !.matches = ms, !.team = Str(team)]

\* two sources of one fixture list: the first gives round 3, a short id and no
\* kickoff time, the second round 4, a long id and the time
Sources == {<<Num(3), Str(<<"M", "1">>), <<>>>>, <<Num(4), Str(<<"x", "9", "z", "z">>), T18>>}

Scores == {<<Null, Null>>, <<Str(<<"2">>), Str(<<"1">>)>>}

\* fixtures of the followed club ab against cd or ef on one day, in either
\* orientation, scored or not, from either source
TrackedRecs ==
  { RawB(src[2], IF o = "h" THEN TeamAB ELSE opp, IF o = "h" THEN opp ELSE TeamAB,
         sc[1], sc[2], src[1], D1, src[3], <<>>) :
      o \in {"h", "a"}, opp \in {TeamCD, TeamEF}, sc \in Scores, src \in Sources }

\* another club of the same region
GalilRival == <<"bet", "yod", " ">> \o CorePhrase

\* fixtures of the club followed by default, named in full or abbreviated, against
\* cd or the other club of its region: the first source's without a result, the
\* second's with one
GalilRecs ==
  { RawB(src[2], IF o = "h" THEN Galil ELSE opp,
         IF o = "h" THEN opp ELSE IF opp = TeamCD THEN GalilAbbr ELSE Galil,
         IF src[1] = Num(3) THEN Null ELSE Str(<<"2">>),
         IF src[1] = Num(3) THEN Null ELSE Str(<<"1">>), src[1], D1Slash, src[3], <<>>) :
      o \in {"h", "a"}, opp \in {TeamCD, GalilRival}, src \in Sources }

\* records that lack a side, and one club named on both sides
GarbageRecs ==
  { RawB(Undef, h, a, Null, Null, Num(3), D1, <<>>, <<>>) :
      h \in {<<>>, TeamCD}, a \in {<<>>, TeamCD} }

GoalValues ==
  { Undef, Null, Str(<<>>), Str(<<"3">>), Num(3), Num(0), Str(<<"0">>), Str(<<"a", "b", "c">>),
    Str(<<" ", "3">>), Str(<<"-", "1">>), Num(0 - 1), Str(<<"3", ".", "5">>) }

\* one fixture whose two goal properties take every pair of values, in each shape
ScoreDocs ==
  { DocOfMatches(<<RawA(Str(<<"M", "1">>), TeamCD, TeamEF, hg, ag, Num(1), D1, T18, <<>>)>>) :
      hg \in GoalValues, ag \in GoalValues }
  \cup
  { DocOfMatches(<<RawB(Str(<<"M", "1">>), TeamCD, TeamEF, hg, ag, Num(1), D1, T18, <<>>)>>) :
      hg \in GoalValues, ag \in GoalValues }
  \cup
  { DocOfGames(<<RawC(Str(<<"M", "1">>), TeamCD, TeamEF, hg, ag, Num(1), Undef)>>) :
      hg \in GoalValues, ag \in GoalValues }

RoundValues ==
  { Undef, Null, Num(0), Num(0 - 2), Num(3), Str(<<"0">>), Str(<<"-", "3">>),
    Str(<<"r", "o", "u", "n", "d", " ", "2">>), Str(<<"a", "b", "c">>), Str(<<>>) }

\* one fixture whose round property takes every value, in each shape
RoundDocs ==
  { DocOfMatches(<<RawA(Str(<<"M", "1">>), TeamCD, TeamEF, Num(1), Num(0), rn, D1, T18, <<>>)>>) :
      rn \in RoundValues }
  \cup
  { DocOfMatches(<<RawB(Str(<<"M", "1">>), TeamCD, TeamEF, Num(1), Num(0), rn, D1, T18, <<>>)>>) :
      rn \in RoundValues }
  \cup
  { DocOfGames(<<RawC(Str(<<"M", "1">>), TeamCD, TeamEF, Num(1), Num(0), rn, Undef)>>) :
      rn \in RoundValues }

\* fixtures between two other clubs on one day, in either orientation, with the
\* kickoff time written with or without seconds, or absent
LeagueRecs ==
  { RawA(Str(<<"M", "1">>), hA[1], hA[2], sc[1], sc[2], Num(5), D1, tm, <<>>) :
      hA \in {<<TeamCD, TeamEF>>, <<TeamEF, TeamCD>>}, sc \in Scores,
      tm \in {<<>>, T18, T18 \o <<":", "0", "0">>} }

\* played fixtures of cd against ef, and of cd against a club whose name differs
\* from cd by a trailing blank only, on two days with three results; one fixture
\* with the home goals only
TableRecs ==
  { RawA(Str(<<"M", "1">>), TeamCD, aw, sc[1], sc[2], Num(5), dt, <<>>, <<>>) :
      aw \in {TeamEF, TeamCD \o <<" ">>},
      sc \in {<<Num(2), Num(1)>>, <<Num(1), Num(1)>>, <<Num(0), Num(2)>>},
      dt \in {D1, D2} }
  \cup { RawA(Str(<<"M", "2">>), TeamEF, TeamCD, Num(2), Null, Num(5), D1, <<>>, <<>>) }

RawDocs ==
  { DocOfTeam(TeamAB, ms) : ms \in SeqsUpTo(TrackedRecs, MaxMatches) }
  \cup { DocOfMatches(ms) : ms \in SeqsUpTo(GalilRecs, MaxMatches) }

\* documents of fixtures between other clubs
LeagueDocs ==
  { DocOfTeam(TeamAB, ms) : ms \in SeqsUpTo(GarbageRecs, MaxGroup) }
  \cup { DocOfTeam(TeamAB, ms) : ms \in SeqsUpTo(LeagueRecs, MaxMatches) }
  \cup { DocOfTeam(TeamAB, ms) : ms \in SeqsUpTo(TableRecs, MaxMatches) }

\* the page's boot() over the documents docs
PageNext(docs) ==
  \/ \E doc \in docs : LoadLeagueData(doc)
  \/ ApplyScores
  \/ RenderTable

Next == PageNext(RawDocs)

Spec == Init /\ [][Next]_vars

\* the page over documents whose goal and round properties take every kind of value
NextLeague == PageNext(LeagueDocs)

SpecLeague == Init /\ [][NextLeague]_vars

NextCoerce == PageNext(ScoreDocs \cup RoundDocs)

SpecCoerce == Init /\ [][NextCoerce]_vars

\* one fixture in each shape with every property the page reads
D1Utc == D1 \o <<"T", "1", "8", ":", "0", "0", ":", "0", "0", "Z">>
FullA == RawA(Str(<<"M", "1">>), TeamCD, TeamEF, Num(2), Num(1), Num(5), D1, T18, <<>>)
FullB == RawB(Str(<<"M", "1">>), TeamCD, TeamEF, Num(2), Num(1), Num(5), D1, T18, <<>>)
FullC == RawC(Str(<<"M", "1">>), TeamCD, TeamEF, Num(2), Num(1), Num(5), Str(D1Utc))

\* the fixture of the shape without the properties F, each of them being v
\* (absent or null) instead
Without(shape, F, v) ==
  LET sc(x) == IF "score" \in F THEN v ELSE x
      dt(x) == IF "date" \in F THEN v ELSE x
      tm(x) == IF "time" \in F THEN v ELSE x
      rn(x) == IF "round" \in F THEN v ELSE x
      nm(x) == IF "names" \in F THEN v ELSE x
  IN IF shape = "A"
       THEN [FullA EXCEPT !.hs = sc(@), !.as = sc(@), !.date = dt(@), !.time = tm(@),
                          !.round = rn(@), !.home = nm(@), !.away = nm(@)]
     ELSE IF shape = "B"
       THEN [FullB EXCEPT !.home_goals = sc(@), !.away_goals = sc(@), !.date = dt(@),
                          !.time = tm(@), !.round_number = rn(@),
                          !.home = nm(@), !.away = nm(@)]
     ELSE [FullC EXCEPT !.c_home_goals = sc(@), !.c_away_goals = sc(@), !.date = dt(@),
                        !.c_round_number = rn(@),
                        !.c_home_provider = nm(@), !.c_away_provider = nm(@)]

DocOfShape(shape, recs) == IF shape = "C" THEN DocOfGames(recs) ELSE DocOfMatches(recs)

Shapes == {"A", "B", "C"}

PartialDocs ==
  { DocOfShape(shape, <<Without(shape, F, v)>>) :
      shape \in Shapes, F \in SUBSET {"score", "date", "time", "round", "names"},
      v \in {Undef, Null} }

\* documents with an array one of whose elements is null
NullRecs(rec) == {<<Null>>, <<rec, Null>>, <<Null, rec>>}

NullRecDocs ==
  UNION { { DocOfShape(shape, recs) : recs \in NullRecs(Without(shape, {}, Undef)) } :
            shape \in Shapes }

\* documents without an array of matches or games, and with an empty one
NoArrayDocs ==
  { NoDoc, [NoDoc EXCEPT !.team = Str(TeamAB)], DocOfMatches(<<>>), DocOfGames(<<>>) }

\* dates and times as sources write them, and text that is neither
DateTexts ==
  { D1, D1Slash, <<"1", "/", "3", "/", "2", "4">>, D1Utc, <<"a", "b", "c">>,
    <<"T", "B", "D", " ", "u", "n", "k", "n", "o", "w", "n">> }

TimeTexts ==
  { T18, T18 \o <<":", "0", "0">>, <<"7", ":", "0", "5">>, D1Utc, <<"a", "b", "c">>, <<"1", "8">> }

DateDocs ==
  { DocOfMatches(<<[Without(shape, {}, Undef) EXCEPT !.date = Str(d), !.time = Str(t)]>>) :
      shape \in {"A", "B"}, d \in DateTexts, t \in TimeTexts }
  \cup { DocOfGames(<<[FullC EXCEPT !.date = Str(d)]>>) : d \in DateTexts }

NextLoad == PageNext(PartialDocs \cup NullRecDocs \cup NoArrayDocs \cup DateDocs)

SpecLoad == Init /\ [][NextLoad]_vars

\* data.json of leagues that follow ab or cd, each with one unplayed fixture between
\* two of the clubs ab, cd and ef
ReloadDocs ==
  { DocOfTeam(t, <<RawB(Undef, p[1], p[2], Null, Null, Num(1), D1, <<>>, <<>>)>>) :
      t \in {TeamAB, TeamCD},
      p \in {q \in {TeamAB, TeamCD, TeamEF} \X {TeamAB, TeamCD, TeamEF} : q[1] # q[2]} }

\* the page whose boot() runs again and again, data.json changing in between
NextReload ==
  \/ PageNext(ReloadDocs)
  \/ BootAgain

SpecReload == Init /\ [][NextReload]_vars

MaxRows == 3

\* names of the rows of a standings table: the followed club ab, written plainly and
\* with dots, cd plainly and with a leading blank, ef, and a row without a name
RowNames ==
  { Str(TeamAB), Str(<<"a", ".", "b", ".">>), Str(TeamCD), Str(<<" ">> \o TeamCD),
    Str(TeamEF), Null }

\* fixture lists of a league that follows ab
TeamsMatches ==
  { <<RawB(Undef, TeamAB, TeamCD, Null, Null, Num(1), D1, <<>>, <<>>)>>,
    <<RawB(Undef, TeamCD, TeamEF, Null, Null, Num(1), D1, <<>>, <<>>),
      RawB(Undef, TeamEF, <<"a", ".", "b", ".">>, Num(1), Num(0), Num(2), D2, <<>>, <<>>)>>,
    <<RawB(Undef, TeamCD, TeamEF, Null, Null, Num(1), D1, <<>>, <<>>),
      RawB(Undef, <<"c", ".", "d">>, TeamAB, Null, Null, Num(2), D2, <<>>, <<>>)>> }

\* data.json with a standings table of up to MaxRows rows, or none
TeamsDocs ==
  { [DocOfTeam(TeamAB, ms) EXCEPT !.standingsSource = st] :
      ms \in TeamsMatches, st \in SeqsUpTo(RowNames, MaxRows) \cup {<<>>} }

NextTeams == PageNext(TeamsDocs)

SpecTeams == Init /\ [][NextTeams]_vars

\* fixtures of the followed club ab against cd or ef, in either orientation, with
\* or without a date, a round and a kickoff time
KeyRecsOurs ==
  { RawB(Undef, IF o = "h" THEN TeamAB ELSE opp, IF o = "h" THEN opp ELSE TeamAB,
         Null, Null, rn, dt, tm, <<>>) :
      o \in {"h", "a"}, opp \in {TeamCD, TeamEF}, dt \in {<<>>, D1},
      rn \in {Null, Num(3)}, tm \in {<<>>, T00, T18} }

\* the fixture cd against ef, and fixtures of ab whose date is the text of a
\* kickoff time
KeyRecsOthers ==
  { RawB(Undef, TeamCD, TeamEF, Null, Null, rn, dt, tm, <<>>) :
      dt \in {<<>>, D1}, rn \in {Null, Num(3)}, tm \in {<<>>, T18} }
  \cup { RawB(Undef, TeamAB, TeamCD, Null, Null, Null, T18, tm, <<>>) : tm \in {<<>>, T18} }

KeyRecs == KeyRecsOurs \cup KeyRecsOthers

\* data.json of one or two of these records
KeyDocs ==
  { DocOfTeam(TeamAB, <<a>>) : a \in KeyRecs }
  \cup { DocOfTeam(TeamAB, ab) : ab \in KeyRecs \X KeyRecs }

NextKeys == PageNext(KeyDocs)

SpecKeys == Init /\ [][NextKeys]_vars

\* one fixture of ab at home to cd in the page's own shape, with or without a
\* score, a venue, a kickoff time and an id
BetterRecs ==
  { RawA(id, TeamAB, TeamCD, sc[1], sc[2], Num(1), D1, tm, vn) :
      id \in {Undef, Str(<<"M", "1">>), Str(<<"M", "1", "0">>)},
      sc \in {<<Null, Null>>, <<Num(2), Null>>, <<Num(2), Num(1)>>},
      tm \in {<<>>, T00, T18},
      vn \in {<<>>, <<" ">>, <<"v">>} }

\* data.json that lists the fixture twice
BetterDocs == { DocOfTeam(TeamAB, <<a, b>>) : a \in BetterRecs, b \in BetterRecs }

NextBetter == PageNext(BetterDocs)

SpecBetter == Init /\ [][NextBetter]_vars

\* the fixture of ab at home to cd with no, half a or a whole score, from two
\* sources with or without the kickoff time, and the fixture of ab at home to ef
OrderRecs ==
  { RawA(id, TeamAB, TeamCD, sc[1], sc[2], Num(3), D1, tm, <<>>) :
      id \in {Str(<<"M", "1">>), Str(<<"M", "1", "0">>)},
      sc \in {<<Null, Null>>, <<Num(2), Null>>, <<Num(2), Num(1)>>},
      tm \in {<<>>, T18} }
  \cup { RawA(Str(<<"M", "2">>), TeamAB, TeamEF, sc[1], sc[2], Num(3), D1, <<>>, <<>>) :
      sc \in {<<Null, Null>>, <<Num(0), Num(0)>>} }

\* data.json with three of them in any order
OrderDocs == { DocOfTeam(TeamAB, <<a, b, c>>) : a \in OrderRecs, b \in OrderRecs, c \in OrderRecs }

NextOrder == PageNext(OrderDocs)

SpecOrder == Init /\ [][NextOrder]_vars

TeamGH == <<"g", "h">>

\* fixtures between two of four clubs, not played or played with one of four results
StandingRecs ==
  { RawA(Str(<<"M", "1">>), p[1], p[2], sc[1], sc[2], Num(5), D1, <<>>, <<>>) :
      p \in {q \in {TeamAB, TeamCD, TeamEF, TeamGH} \X {TeamAB, TeamCD, TeamEF, TeamGH} :
               q[1] # q[2]},
      sc \in {<<Null, Null>>, <<Num(0), Num(0)>>, <<Num(1), Num(1)>>, <<Num(1), Num(0)>>,
              <<Num(2), Num(0)>>} }

\* data.json with two of them
StandingDocs == { DocOfMatches(<<a, b>>) : a \in StandingRecs, b \in StandingRecs }

NextStandings == PageNext(StandingDocs)

SpecStandings == Init /\ [][NextStandings]_vars

\* one fixture in each shape, played and not yet played
ShapeRecs == { Without(shape, F, Null) : shape \in Shapes, F \in {{}, {"score"}} }

\* documents whose array of matches or of games holds two records of any shapes
ShapeDocs ==
  { DocOfMatches(<<a, b>>) : a \in ShapeRecs, b \in ShapeRecs }
  \cup { DocOfGames(<<a, b>>) : a \in ShapeRecs, b \in ShapeRecs }

NextShapes == PageNext(ShapeDocs)

SpecShapes == Init /\ [][NextShapes]_vars

T20 == <<"2", "0", ":", "0", "0">>

\* one fixture of ab at home to cd: with no, half a or a whole score and with or
\* without a round
MergeRecsScore ==
  { RawA(id, TeamAB, TeamCD, sc[1], sc[2], rn, D1, <<>>, <<>>) :
      id \in {Str(<<"M", "1">>), Str(<<"M", "1", "0">>)},
      sc \in {<<Null, Null>>, <<Num(2), Null>>, <<Num(2), Num(1)>>, <<Num(0), Num(3)>>},
      rn \in {Null, Num(0), Num(3), Num(4)} }

\* the same with or without a venue and a kickoff time
MergeRecsPlace ==
  { RawA(id, TeamAB, TeamCD, Null, Null, Num(3), D1, tm, vn) :
      id \in {Str(<<"M", "1">>), Str(<<"M", "1", "0">>)},
      tm \in {<<>>, T00, T18, T20},
      vn \in {<<>>, <<"v">>, <<"w">>} }

\* records of ab that name no other side, and records of ab against cd at 18:00
\* of which one has no date and the others a date that is the text of the time
MergeRecsGaps ==
  { RawA(id, h, a, Null, Null, Num(3), D1, <<>>, <<>>) :
      id \in {Str(<<"M", "1">>), Str(<<"M", "1", "0">>)},
      h \in {<<>>, TeamAB}, a \in {<<>>, TeamAB} }
  \cup { RawA(id, TeamAB, TeamCD, Null, Null, Null, dt, T18, <<>>) :
      id \in {Str(<<"M", "1">>), Str(<<"M", "1", "0">>)}, dt \in {<<>>, T18} }

\* data.json that lists two records of one family
MergeDocs ==
  UNION { { DocOfTeam(TeamAB, <<a, b>>) : a \in F, b \in F } :
            F \in {MergeRecsScore, MergeRecsPlace, MergeRecsGaps} }

NextMerge == PageNext(MergeDocs)

SpecMerge == Init /\ [][NextMerge]_vars

\* names of which one is part of the next
RosterNames ==
  { TeamCD, TeamCD \o <<" ">> \o <<"e">>, TeamCD \o <<" ">> \o TeamEF,
    <<"x", " ">> \o TeamCD \o <<" ">> \o TeamEF }

\* data.json with one fixture between two of them, in a league that follows ab
RosterDocs ==
  { DocOfTeam(TeamAB, <<RawB(Undef, h, a, Null, Null, Num(1), D1, <<>>, <<>>)>>) :
      h \in RosterNames, a \in RosterNames }

\* the page whose boot() runs again: the roster is the one the first dataset gave,
\* and the names of the next are looked up in it
NextRoster ==
  \/ PageNext(RosterDocs)
  \/ BootAgain

SpecRoster == Init /\ [][NextRoster]_vars

\* names of one club as sources write it
FCNorthHill == <<"F", "C", " ", "N", "o", "r", "t", "h", " ", "H", "i", "l", "l">>
FCSouth == <<"F", "C", " ", "S", "o", "u", "t", "h">>
Qvutza == <<"qof", "bet", "vav", "tsadi", "he">>

\* FC North Hill followed by a word, by the sponsor the page knows, with dots,
\* in quotes and with a no-break space and a doubled blank
WithSuffixWord == FCNorthHill \o <<" ">> \o Qvutza
WithSponsor == FCNorthHill \o <<" ">> \o SponsorA \o <<" ">> \o SponsorB
WithDots == <<"F", ".", "C", ".">> \o SubSeq(FCNorthHill, 3, 13)
WithQuotes == <<"F", "C", " ", "gershayim">> \o SubSeq(FCNorthHill, 4, 13) \o <<"gershayim">>
WithBlanks == <<"F", "C", "nbsp", " ">> \o SubSeq(FCNorthHill, 4, 13) \o <<" ">>

NameVariants == {WithSuffixWord, WithSponsor, WithDots, WithQuotes, WithBlanks}

\* record A and record B of the end-to-end example, in the updater's shape and
\* in the page's own
ExampleA == RawB(Str(<<"M", "1">>), WithSuffixWord, FCSouth, Num(2), Num(1), Num(0), D1, <<>>, <<>>)
ExampleB == RawB(Str(<<"M", "2">>), FCSouth, FCNorthHill, Null, Null, Num(1), D1, <<>>, <<>>)
ExampleA2 == RawA(Str(<<"M", "1">>), WithSuffixWord, FCSouth, Num(2), Num(1), Num(0), D1, <<>>, <<>>)
ExampleB2 == RawA(Str(<<"M", "2">>), FCSouth, FCNorthHill, Null, Null, Num(1), D1, <<>>, <<>>)

\* unplayed fixtures of the club under each of its names against FC South, in
\* either orientation, and the two records of the example
NameRecs ==
  { RawB(Undef, IF o = "h" THEN n ELSE FCSouth, IF o = "h" THEN FCSouth ELSE n,
         Null, Null, Num(1), D1, <<>>, <<>>) :
      o \in {"h", "a"}, n \in NameVariants \cup {FCNorthHill} }
  \cup {ExampleA, ExampleB}

NameDocs ==
  { DocOfMatches(ms) : ms \in SeqsUpTo(NameRecs, MaxMatches) }
  \cup { DocOfTeam(FCNorthHill, ms) : ms \in {<<ExampleA, ExampleB>>, <<ExampleB, ExampleA>>} }
  \cup { DocOfMatches(ms) : ms \in {<<ExampleA2, ExampleB2>>, <<ExampleB2, ExampleA2>>} }

NextNames == PageNext(NameDocs)

SpecNames == Init /\ [][NextNames]_vars

\* the updater's main()
MaxGames == 3

\* games of two ids in round 0, round 1 or none, a game without an id, one whose
\* round number is a string and one of round 3
GameRecs ==
  { [id |-> Str(<<"g", "1">>), date |-> Str(D2), round |-> Num(0)],
    [id |-> Str(<<"g", "1">>), date |-> Str(D1), round |-> Num(1)],
    [id |-> Str(<<"g", "2">>), date |-> Str(D2), round |-> Num(1)],
    [id |-> Str(<<"g", "2">>), date |-> Str(D1), round |-> Null],
    [id |-> Null, date |-> Str(D1), round |-> Num(0)],
    [id |-> Str(<<"g", "3">>), date |-> Null, round |-> Str(<<"0">>)],
    [id |-> Str(<<"g", "4">>), date |-> Str(D1), round |-> Num(3)] }

NextFetch ==
  \/ \E batch \in SeqsUpTo(GameRecs, MaxGames), crn \in {Null, Num(4)} :
       FetchRounds(batch, crn)
  \/ DedupeGames
  \/ NormalizeRounds

SpecFetch == Init /\ [][NextFetch]_vars

MaxFails == 2
MaxFound == 2

\* the updater with a round parameter: the provider answers each request with no
\* game or with one, or fails; at most MaxFails requests fail and at most
\* MaxFound are answered with a game
NextLoop ==
  \/ \E crn \in {Null, Num(MinTry + 2)} : StartLoop(crn)
  \/ loop.tried.failed < MaxFails /\ FetchFails
  \/ FetchRound(<<>>)
  \/ Len(allGames) < MaxFound
       /\ FetchRound(<<[id |-> Str(<<"g", "1">>), date |-> Str(D1), round |-> Num(0)]>>)
  \/ DedupeGames
  \/ NormalizeRounds

SpecLoop == Init /\ [][NextLoop]_vars /\ WF_vars(NextLoop)

\* the name the provider gives round k
RoundName(k) == Str(<<"mem", "het", "zayin", "vav", "resh", " ">> \o NatToStr(k))

\* games with a round number of 0, 1, 2 or none, as a number or as text, and with
\* the name of the same round, of the next, or none
NamedRecs ==
  { [id |-> Str(<<"g">> \o NatToStr(k)), date |-> Str(D1), round |-> rn, name |-> nm] :
      k \in {1, 2},
      rn \in {Null, Num(0), Num(1), Num(2), Str(<<"1">>)},
      nm \in {Null, RoundName(1), RoundName(2)} }

\* the two updaters over the same answers of the provider
NextRounds ==
  \/ \E batch \in [1..2 -> NamedRecs], crn \in {Null, Num(0), Num(1)}, crName \in {Null, RoundName(1)} :
       FetchNamed(batch, crn, crName)
  \/ DedupeGames
  \/ NormalizeRounds
  \/ NormalizeRoundsByName

SpecRounds == Init /\ [][NextRounds]_vars

\* ------------------------------------------------------------ properties

\* the roster a call of canonicalTeamKey would use now
Canon == buildCanonTeamKeys(CANON_TEAM_KEYS, LEAGUE_DATA)

\* matchNaturalKey of every record of list, now
KeysOf(list) ==
  LET canon == Canon IN [i \in 1..Len(list) |-> matchNaturalKey(list[i], canon, LEAGUE_DATA.team)]

Dedupe(list) == dedupeMatches(list, Canon, LEAGUE_DATA.team)

IsOurs(m) == isMyTeam(m.home, LEAGUE_DATA.team) \/ isMyTeam(m.away, LEAGUE_DATA.team)

\* the entries of the deduplication map of the loaded matches
LoadedMap ==
  DedupeMap(CoerceScores(LEAGUE_DATA.matches), Refs(0, Len(LEAGUE_DATA.matches)),
            Len(LEAGUE_DATA.matches), Canon, LEAGUE_DATA.team).map

\* C1: deduplicating the output of applyScores again changes nothing: no two of
\* its records have the same natural key, so none is merged.
C1_DedupeIdempotent ==
  pc = "applied" =>
    LET keys == KeysOf(state.allMatches) IN
      /\ Dedupe(state.allMatches) = state.allMatches
      /\ \A i, j \in 1..Len(keys) : i # j => keys[i] # keys[j]

\* the side of m that does not name the followed club: the other side of the one
\* whose key is the club's, and what opponentOf gives when neither key is
OtherSide(m) ==
  IF normTeamKey(m.home) = normTeamKey(LEAGUE_DATA.team) THEN m.away
  ELSE IF normTeamKey(m.away) = normTeamKey(LEAGUE_DATA.team) THEN m.home
  ELSE opponentOf(m, LEAGUE_DATA.team)

\* two records of one fixture of the followed club
C2_Pair(a, b) ==
  /\ a.date # <<>> /\ a.date = b.date
  /\ IsOurs(a) /\ IsOurs(b)
  /\ OtherSide(a) = OtherSide(b)

\* C2: two loaded records of the followed club with the same non-empty date and the
\* same opponent name have one natural key, whatever their rounds, ids and
\* orientation, so the output holds one record for them; when they are the whole
\* group and exactly one of them has both scores, that record's scores are the
\* output's.
C2_TrackedCollapse ==
  pc = "applied" =>
    LET L == LEAGUE_DATA.matches
        keys == KeysOf(L)
        map == LoadedMap
    IN /\ Len(state.allMatches) = Len(map)
       /\ \A i, j \in 1..Len(L) :
            (i < j /\ C2_Pair(L[i], L[j])) =>
              LET group == {k \in 1..Len(L) : keys[k] = keys[i]}
                  outs == {k \in 1..Len(map) : map[k].key = keys[i]}
                  o == state.allMatches[CHOOSE k \in outs : TRUE]
                  scored == IF HasScore(L[i]) THEN L[i] ELSE L[j]
              IN /\ keys[i] = keys[j]
                 /\ Cardinality(outs) = 1
                 /\ Len(state.allMatches) <= Len(L) - 1
                 /\ (group = {i, j} /\ HasScore(L[i]) # HasScore(L[j])) =>
                      (o.hs = scored.hs /\ o.as = scored.as)

\* two records of one fixture of other clubs, home and away swapped
C3_Pair(a, b) ==
  /\ a.date # <<>> /\ a.date = b.date
  /\ RealTime(a.time) /\ a.time = b.time
  /\ b.home = a.away /\ b.away = a.home
  /\ ~IsOurs(a) /\ ~IsOurs(b)

\* C3: two loaded records of other clubs with the same date and the same real
\* kickoff time, the one's home and away being the other's away and home, have one
\* natural key, and the output holds one record for them.
C3_LeagueCollapse ==
  pc = "applied" =>
    LET L == LEAGUE_DATA.matches
        keys == KeysOf(L)
        map == LoadedMap
    IN \A i, j \in 1..Len(L) :
         (i < j /\ C3_Pair(L[i], L[j])) =>
           /\ keys[i] = keys[j]
           /\ Cardinality({k \in 1..Len(map) : map[k].key = keys[i]}) = 1
           /\ Len(state.allMatches) = Len(map)
           /\ Len(state.allMatches) <= Len(L) - 1

\* a swapped pair whose raw times are written differently has become one match
C3_Witness ==
  /\ pc = "applied"
  /\ Len(LEAGUE_DATA.matches) = 2
  /\ C3_Pair(LEAGUE_DATA.matches[1], LEAGUE_DATA.matches[2])
  /\ LEAGUE_DATA.matches[1].home # LEAGUE_DATA.matches[2].home
  /\ raw.matches[1].time # raw.matches[2].time
  /\ Len(state.allMatches) = 1

\* the places of list whose round is a number
NumericRounds(list) == {i \in 1..Len(list) : IsNumber(list[i].round)}

\* the least of the numeric rounds of list
LeastRound(list) ==
  CHOOSE m \in {list[i].round.n : i \in NumericRounds(list)} :
    \A i \in NumericRounds(list) : m <= list[i].round.n

\* what a step of NormalizeRounds does to games and shift
C6_Step ==
  (fpc = "deduped" /\ fpc' = "normalized") =>
    LET num == NumericRounds(games) IN
      /\ Len(games') = Len(games)
      /\ \A i \in 1..Len(games) :
           /\ games'[i].id = games[i].id /\ games'[i].date = games[i].date
           /\ i \notin num => games'[i].round = games[i].round
      /\ (num # {} /\ LeastRound(games) = 0) =>
           /\ shift' = 1
           /\ \A i \in num : games'[i].round = Num(games[i].round.n + 1)
           /\ LeastRound(games') = 1
      /\ (num = {} \/ LeastRound(games) >= 1) =>
           /\ shift' = 0
           /\ games' = games
      /\ \A i, j \in num :
           games'[i].round.n - games'[j].round.n = games[i].round.n - games[j].round.n

\* C6: normalizeRoundNumbersIfZeroBased adds 1 to every numeric round number and
\* returns 1 when the least numeric round number of the batch is 0, the least
\* then being 1; it changes no round number and returns 0 when the least is 1 or
\* more or no round number is numeric.  Either way every game moves by the same
\* amount.
C6_RoundShift == [][C6_Step]_vars

\* a batch with rounds 0 and 1 and a round that is the string '0' has been shifted
C6_Witness ==
  /\ fpc = "normalized"
  /\ shift = 1
  /\ \E i, j \in 1..Len(games) : games[i].round = Num(1) /\ games[j].round = Num(2)
  /\ \E i \in 1..Len(games) : games[i].round = Str(<<"0">>)

\* the records of the array normalizeMatches reads
RawRecords == IF raw.hasMatches THEN raw.matches ELSE raw.games

\* the two goal properties of m in the shape the first record of the array has
RawGoals(m) ==
  LET sample == RawRecords[1] IN
    IF HasOwn(sample.hs) \/ HasOwn(sample.as) THEN <<m.hs, m.as>>
    ELSE IF HasOwn(sample.home_goals) \/ HasOwn(sample.away_goals)
      THEN <<m.home_goals, m.away_goals>>
    ELSE <<m.c_home_goals, m.c_away_goals>>

\* text without a digit
NoDigit(s) == \A i \in 1..Len(s) : ~IsDigit(s[i])

\* the score `out` is what the claim makes of the goal property v
C7_Coerced(v, out) ==
  /\ out.t = "null" \/ (out.t = "num" /\ out.n >= 0)
  /\ (v.t = "num" /\ v.n >= 0) => out = v
  /\ (v.t = "str" /\ AllDigits(v.s)) => out = Num(DigitsToInt(v.s))
  /\ (v.t \in {"undef", "null"} \/ (v.t = "str" /\ NoDigit(v.s))) => out = Null

\* C7: in each shape, a goal property that is a non-negative number or a string of
\* decimal digits becomes that number; one that is absent, null, '' or text
\* without a digit becomes null; whatever it is, the score is null or a
\* non-negative number, before and after applyScores.
C7_ScoreCoercion ==
  /\ pc = "loaded" =>
       \A i \in 1..Len(LEAGUE_DATA.matches) :
         /\ C7_Coerced(RawGoals(RawRecords[i])[1], LEAGUE_DATA.matches[i].hs)
         /\ C7_Coerced(RawGoals(RawRecords[i])[2], LEAGUE_DATA.matches[i].as)
  /\ (pc = "applied" /\ Len(RawRecords) = 1) =>
       /\ Len(state.allMatches) = 1
       /\ C7_Coerced(RawGoals(RawRecords[1])[1], state.allMatches[1].hs)
       /\ C7_Coerced(RawGoals(RawRecords[1])[2], state.allMatches[1].as)

\* a fixture of the provider's shape with the goals '3' and 3 has the score 3-3
C7_Witness ==
  /\ pc = "applied"
  /\ raw.hasGames
  /\ RawGoals(RawRecords[1]) = <<Str(<<"3">>), Num(3)>>
  /\ state.allMatches[1].hs = Num(3) /\ state.allMatches[1].as = Num(3)

\* both scores or neither
BothOrNeither(m) == (m.hs.t = "null") = (m.as.t = "null")

\* C8: every match normalizeMatches produced and every match of state.allMatches
\* has both scores or neither.
C8_ScorePairs ==
  /\ \A i \in 1..Len(LEAGUE_DATA.matches) : BothOrNeither(LEAGUE_DATA.matches[i])
  /\ \A i \in 1..Len(state.allMatches) : BothOrNeither(state.allMatches[i])

\* null or a positive number
PositiveOrNull(r) == r.t = "null" \/ (r.t = "num" /\ r.n > 0)

\* C9: the round of every match normalizeMatches produced and of every match of
\* state.allMatches is null or a positive number.
C9_RoundPositive ==
  /\ \A i \in 1..Len(LEAGUE_DATA.matches) : PositiveOrNull(LEAGUE_DATA.matches[i].round)
  /\ \A i \in 1..Len(state.allMatches) : PositiveOrNull(state.allMatches[i].round)

\* the two records of the example, in the page's shape or the updater's
IsExample ==
  raw.hasMatches /\ raw.matches \in { <<ExampleA, ExampleB>>, <<ExampleB, ExampleA>>,
                                      <<ExampleA2, ExampleB2>>, <<ExampleB2, ExampleA2>> }

\* C4: the dataset of record A and record B of the example, in either order,
\* gives exactly one match after applyScores: of round 1, with the score 2-1,
\* home and away as record A names them.
C4_Example ==
  (pc = "applied" /\ IsExample) =>
    /\ Len(state.allMatches) = 1
    /\ state.allMatches[1].round = Num(1)
    /\ state.allMatches[1].hs = Num(2) /\ state.allMatches[1].as = Num(1)
    /\ state.allMatches[1].home = WithSuffixWord
    /\ state.allMatches[1].away = FCSouth

\* the sums of the columns gf and ga over the first n rows
RECURSIVE SumGf(_, _)
SumGf(rows, n) == IF n = 0 THEN 0 ELSE SumGf(rows, n - 1) + rows[n].gf

RECURSIVE SumGa(_, _)
SumGa(rows, n) == IF n = 0 THEN 0 ELSE SumGa(rows, n - 1) + rows[n].ga

\* C5: every row of the table computeTable returns has p = w + d + l and
\* pts = 3w + d, and the rows' gf add up to what their ga add up to.
C5_Standings ==
  pc = "rendered" =>
    /\ \A i \in 1..Len(table) :
         /\ table[i].p = table[i].w + table[i].d + table[i].l
         /\ table[i].pts = 3 * table[i].w + table[i].d
    /\ SumGf(table, Len(table)) = SumGa(table, Len(table))

\* a table of two rows, one with a win and two draws, made of a scored fixture
\* whose home and away have one normalized name
C5_Witness ==
  /\ pc = "rendered"
  /\ Len(table) = 2
  /\ \E i \in 1..Len(table) : table[i].p = 3 /\ table[i].d = 2 /\ table[i].w = 1
  /\ \E i \in 1..Len(state.allMatches) :
       /\ normName(state.allMatches[i].home) = normName(state.allMatches[i].away)
       /\ HasScore(state.allMatches[i])

\* the names the loaded matches use
NamesLoaded ==
  UNION { {LEAGUE_DATA.matches[i].home, LEAGUE_DATA.matches[i].away} :
            i \in 1..Len(LEAGUE_DATA.matches) }

\* C10: two names of the loaded matches of which one is the other with a trailing
\* sponsor suffix, or with other punctuation, quotes or blanks, have the same
\* canonical key.
C10_VariantsCollapse ==
  pc = "applied" =>
    LET canon == Canon IN
      \A v \in NameVariants :
        (FCNorthHill \in NamesLoaded /\ v \in NamesLoaded) =>
          canonicalTeamKey(v, canon) = canonicalTeamKey(FCNorthHill, canon)

\* C12: a document that has neither a matches array nor a games array gives an
\* empty match list, and loadLeagueData fails on it instead of returning a dataset.
C12_NoArrayFails ==
  (pc # "boot" /\ ~raw.hasMatches /\ ~raw.hasGames) =>
    /\ normalizeMatches(raw) = <<>>
    /\ pc = "failed"

\* a property the document does not give: absent or null
Missing(v) == IsNullish(v)

\* the round properties of the raw record m that its shape reads
RawRounds(m) ==
  LET sample == RawRecords[1] IN
    IF HasOwn(sample.hs) \/ HasOwn(sample.as) \/ HasOwn(sample.home_goals)
         \/ HasOwn(sample.away_goals)
      THEN <<m.round_number, m.round, m.round_name, m.roundName>>
    ELSE <<m.c_round_number, m.c_round_name>>

\* the match `out` nulls out what the raw record m does not give
C13_NulledOut(m, out) ==
  /\ Missing(RawGoals(m)[1]) => out.hs = Null
  /\ Missing(RawGoals(m)[2]) => out.as = Null
  /\ Missing(m.date) => out.date = <<>>
  /\ (\A i \in 1..Len(RawRounds(m)) : Missing(RawRounds(m)[i])) => out.round = Null

\* C13: normalizeMatches does not throw, whatever the shape of the document and
\* whatever its records lack, a null record included; a missing score comes out
\* null, a missing date empty and a missing round null.
C13_NeverThrows ==
  pc # "boot" =>
    /\ pc # "failed"
    /\ Len(LEAGUE_DATA.matches) = Len(RawRecords)
    /\ \A i \in 1..Len(RawRecords) : C13_NulledOut(RawRecords[i], LEAGUE_DATA.matches[i])

\* HH:MM
IsHHMM(s) ==
  /\ Len(s) = 5
  /\ s[3] = ":"
  /\ \A i \in {1, 2, 4, 5} : IsDigit(s[i])

\* C14: the date of every normalized match is YYYY-MM-DD or empty and its time
\* HH:MM or empty; text that is no date or no time does not come through.
C14_DateTimeShape ==
  \A i \in 1..Len(LEAGUE_DATA.matches) :
    /\ LEAGUE_DATA.matches[i].date = <<>> \/ IsIsoDate(LEAGUE_DATA.matches[i].date)
    /\ LEAGUE_DATA.matches[i].time = <<>> \/ IsHHMM(LEAGUE_DATA.matches[i].time)

\* C11: whenever a dataset is loaded, the roster buildCanonTeamKeys returns is the
\* roster of that dataset: the keys of its standings names, of the sides of its
\* matches and of its team, and not the roster of a dataset loaded before.
C11_RosterCurrent ==
  pc \in {"loaded", "applied", "rendered"} =>
    buildCanonTeamKeys(CANON_TEAM_KEYS, LEAGUE_DATA) = RosterOf(LEAGUE_DATA)

\* the subsequence of list that names the followed club at home or away
OursOf(list) == SelectSeq(list, IsOurs)

\* C15: after applyScores, state.matches is the matches of state.allMatches that
\* name the followed club on a side, in their order; state.allMatches is the
\* deduplication of the loaded matches; state.opponents holds no name of the
\* followed club and no two names with one key.
C15_StateShape ==
  pc \in {"applied", "rendered"} =>
    /\ state.matches = OursOf(state.allMatches)
    /\ state.allMatches = Dedupe(CoerceScores(LEAGUE_DATA.matches))
    /\ \A i \in 1..Len(state.opponents) :
         /\ ~isMyTeam(state.opponents[i], LEAGUE_DATA.team)
         /\ \A j \in 1..Len(state.opponents) :
              i # j => normTeamKey(state.opponents[i]) # normTeamKey(state.opponents[j])

\* a table that names the followed club and names cd twice has given the one
\* opponent cd, and one of two matches is the followed club's
C15_Witness ==
  /\ pc = "applied"
  /\ \E i \in 1..Len(raw.standingsSource) : raw.standingsSource[i] = Str(<<"a", ".", "b", ".">>)
  /\ \E i, j \in 1..Len(raw.standingsSource) :
       raw.standingsSource[i] = Str(TeamCD) /\ raw.standingsSource[j] = Str(<<" ">> \o TeamCD)
  /\ state.opponents = <<TeamCD>>
  /\ Len(state.allMatches) = 2 /\ Len(state.matches) = 1

\* the heap the run of dedupeMatches inside applyScores would leave now: the
\* objects of LEAGUE_DATA.matches, the copies applyScores passes to dedupeMatches
\* and the objects mergeMatchFields made
HeapAfter ==
  DedupeMap(LEAGUE_DATA.matches \o CoerceScores(LEAGUE_DATA.matches),
            Refs(Len(LEAGUE_DATA.matches), Len(LEAGUE_DATA.matches)),
            Len(LEAGUE_DATA.matches), Canon, LEAGUE_DATA.team).heap

\* what applyScores leaves of the records it was given
C16_Step ==
  (pc = "loaded" /\ pc' = "applied") =>
    /\ LEAGUE_DATA' = LEAGUE_DATA
    /\ SubSeq(HeapAfter, 1, Len(LEAGUE_DATA.matches)) = LEAGUE_DATA.matches
    /\ SubSeq(HeapAfter, Len(LEAGUE_DATA.matches) + 1, 2 * Len(LEAGUE_DATA.matches))
         = CoerceScores(LEAGUE_DATA.matches)

\* C16: applyScores and dedupeMatches leave every record of LEAGUE_DATA.matches and
\* of the list passed to dedupeMatches with the values it had, the records that
\* lost a comparison and those a winner borrowed from included.
C16_InputKept == [][C16_Step]_vars

\* two records have become one match that is neither of them: the winner has
\* borrowed from the loser
C16_Witness ==
  /\ pc = "applied"
  /\ Len(LEAGUE_DATA.matches) = 2
  /\ Len(state.allMatches) = 1
  /\ \A i \in 1..2 : state.allMatches[1] # CoerceScores(LEAGUE_DATA.matches)[i]
  /\ HasScore(state.allMatches[1])

\* two records of one fixture of other clubs on one day, in either orientation, of
\* which a has a real kickoff time and b none
C17_Pair(a, b) ==
  /\ a.date # <<>> /\ a.date = b.date
  /\ RealTime(a.time) /\ ~RealTime(b.time)
  /\ {a.home, a.away} = {b.home, b.away}
  /\ ~IsOurs(a) /\ ~IsOurs(b)

\* C17: two loaded records of other clubs with the same date and the same two
\* teams, one with a real kickoff time and one without, have one natural key, and
\* the output holds one record for them, which carries the real time.
C17_TimeOptional ==
  pc = "applied" =>
    LET L == LEAGUE_DATA.matches
        keys == KeysOf(L)
    IN \A i, j \in 1..Len(L) :
         C17_Pair(L[i], L[j]) =>
           /\ keys[i] = keys[j]
           /\ Len(state.allMatches) <= Len(L) - 1
           /\ \E k \in 1..Len(state.allMatches) :
                /\ state.allMatches[k].date = L[i].date
                /\ state.allMatches[k].time = L[i].time

\* what the key of the record m of the followed club may depend on: its date and
\* opponent; without a date its round and opponent; without both its kickoff
\* time, 00:00 being none, and opponent
C18_Identity(m) ==
  LET d == normDateKey(m.date)
      r == roundToNumber(m.round)
      t == normTimeKey(m.time)
      opp == canonicalTeamKey(OtherSide(m), Canon)
  IN IF d # <<>> THEN <<"date", d, opp>>
     ELSE IF r.t = "num" THEN <<"round", r.n, opp>>
     ELSE <<"time", IF RealTime(t) THEN t ELSE <<>>, opp>>

\* C18: two loaded records of the followed club have one natural key exactly when
\* they agree on what the key may depend on, and no record of the followed club
\* shares its key with a record of other clubs.
C18_KeyDependsOn ==
  pc = "applied" =>
    LET L == LEAGUE_DATA.matches
        keys == KeysOf(L)
    IN \A i, j \in 1..Len(L) :
         /\ (IsOurs(L[i]) /\ IsOurs(L[j])) =>
              ((keys[i] = keys[j]) <=> (C18_Identity(L[i]) = C18_Identity(L[j])))
         /\ (IsOurs(L[i]) /\ ~IsOurs(L[j])) => keys[i] # keys[j]

\* the places of the roster whose key is part of k or has k as a part
Related(k, canon) ==
  { i \in 1..Len(canon) :
      /\ canon[i] # <<>> /\ canon[i] # k
      /\ Includes(k, canon[i]) \/ Includes(canon[i], k) }

\* the longest of the related keys, the first of them among those of one length
LongestRelated(k, canon) ==
  canon[CHOOSE i \in Related(k, canon) :
          \A j \in Related(k, canon) :
            \/ Len(canon[j]) < Len(canon[i])
            \/ Len(canon[j]) = Len(canon[i]) /\ i <= j]

\* C19: canonicalTeamKey returns the key of the name when the roster holds it,
\* else the longest roster key that is part of it or has it as a part (the first
\* found among equally long ones), else the key itself.
C19_Precedence ==
  pc \in {"loaded", "applied"} =>
    \A v \in NamesLoaded :
      LET k == normTeamKey(v)
          canon == Canon
      IN canonicalTeamKey(v, canon) =
           IF k = <<>> THEN <<>>
           ELSE IF \E i \in 1..Len(canon) : canon[i] = k THEN k
           ELSE IF Related(k, canon) = {} THEN k
           ELSE LongestRelated(k, canon)

\* the record the stated order prefers: has(m) says whether m has a venue, and
\* both(a, b) whether the lengths of the ids are compared
Preferred(a, b, has(_), both(_, _)) ==
  IF HasScore(a) # HasScore(b) THEN (IF HasScore(a) THEN a ELSE b)
  ELSE IF has(a) # has(b) THEN (IF has(a) THEN a ELSE b)
  ELSE IF RealTime(a.time) # RealTime(b.time) THEN (IF RealTime(a.time) THEN a ELSE b)
  ELSE IF both(a, b) /\ Len(a.id) # Len(b.id) THEN (IF Len(a.id) < Len(b.id) THEN a ELSE b)
  ELSE a

\* what dedupeMatches leaves of two records of one fixture when w is preferred
KeptOf(a, b, w) == IF w = a THEN mergeMatchFields(a, b) ELSE mergeMatchFields(b, a)

\* applyScores has collapsed the two records it was given into one
Collapsed ==
  pc = "applied" /\ Len(LEAGUE_DATA.matches) = 2 /\ Len(state.allMatches) = 1

VenueNotEmpty(m) == m.venue # <<>>

VenueNotBlank(m) == Trim(m.venue) # <<>>

AnyIds(a, b) == TRUE

BothIds(a, b) == a.id # <<>> /\ b.id # <<>>

\* C20 as stated: of two records of one fixture the one kept as the base is the
\* one with both scores, else the one with a non-empty venue, else the one with a
\* real kickoff time, else the one with the shorter id, else the first.
C20_Priority ==
  Collapsed =>
    state.allMatches[1] =
      KeptOf(LEAGUE_DATA.matches[1], LEAGUE_DATA.matches[2],
             Preferred(LEAGUE_DATA.matches[1], LEAGUE_DATA.matches[2], VenueNotEmpty, AnyIds))

\* C20: of two records of one fixture the one kept as the base is the one with
\* both scores, else the one whose venue is not blank, else the one with a real
\* kickoff time, else, when both have an id, the one with the shorter id, else
\* the first; a later criterion decides only when the earlier ones tie.
C20_PriorityGuarded ==
  Collapsed =>
    state.allMatches[1] =
      KeptOf(LEAGUE_DATA.matches[1], LEAGUE_DATA.matches[2],
             Preferred(LEAGUE_DATA.matches[1], LEAGUE_DATA.matches[2], VenueNotBlank, BothIds))

\* the second record has the kickoff time and no venue, the first the venue, the
\* shorter id and no time, neither a score: the first is kept as the base
C20_Witness ==
  /\ Collapsed
  /\ ~HasScore(LEAGUE_DATA.matches[1]) /\ ~HasScore(LEAGUE_DATA.matches[2])
  /\ LEAGUE_DATA.matches[1].venue = <<"v">> /\ LEAGUE_DATA.matches[2].venue = <<>>
  /\ LEAGUE_DATA.matches[1].time = <<>> /\ LEAGUE_DATA.matches[2].time = T18
  /\ LEAGUE_DATA.matches[1].id = <<"M", "1">> /\ LEAGUE_DATA.matches[2].id = <<"M", "1", "0">>
  /\ state.allMatches[1].id = <<"M", "1">>
  /\ state.allMatches[1].time = T18

\* r is w with its gaps filled from l and nothing else of it changed
OnlyFills(w, l, r) ==
  /\ r.id = w.id
  /\ <<r.hs, r.as>> = IF w.hs = Null /\ w.as = Null /\ l.hs # Null /\ l.as # Null
                        THEN <<l.hs, l.as>> ELSE <<w.hs, w.as>>
  /\ r.home = IF w.home = <<>> THEN l.home ELSE w.home
  /\ r.away = IF w.away = <<>> THEN l.away ELSE w.away
  /\ r.venue = IF w.venue = <<>> THEN l.venue ELSE w.venue
  /\ r.date = IF w.date = <<>> THEN l.date ELSE w.date
  /\ r.time = IF w.time \in {<<>>, T00} /\ l.time \notin {<<>>, T00} THEN l.time ELSE w.time
  /\ r.round = IF w.round # Null THEN w.round ELSE l.round

\* C21: the record dedupeMatches keeps of two records of one fixture is the
\* winner with its gaps filled from the loser: the score pair only when the winner
\* has neither score and the loser both, home, away, venue and date only where
\* the winner's is empty, the time only when the winner's is empty or 00:00 and
\* the loser's is real, the round only when the winner has none; the id and
\* every other field of the winner stay.
C21_MergeFillsGaps ==
  Collapsed =>
    IF chooseBetterMatch(LEAGUE_DATA.matches[1], LEAGUE_DATA.matches[2]) = LEAGUE_DATA.matches[1]
      THEN OnlyFills(LEAGUE_DATA.matches[1], LEAGUE_DATA.matches[2], state.allMatches[1])
      ELSE OnlyFills(LEAGUE_DATA.matches[2], LEAGUE_DATA.matches[1], state.allMatches[1])

\* the second record has the venue and the time 00:00, the first the time 18:00,
\* the shorter id and no venue: the record kept has the id and the venue of the
\* second and the time of the first
C21_Witness ==
  /\ Collapsed
  /\ LEAGUE_DATA.matches[1].venue = <<>> /\ LEAGUE_DATA.matches[2].venue = <<"v">>
  /\ LEAGUE_DATA.matches[1].time = T18 /\ LEAGUE_DATA.matches[2].time = T00
  /\ LEAGUE_DATA.matches[1].id = <<"M", "1">> /\ LEAGUE_DATA.matches[2].id = <<"M", "1", "0">>
  /\ state.allMatches[1].id = <<"M", "1", "0">>
  /\ state.allMatches[1].venue = <<"v">>
  /\ state.allMatches[1].time = T18

\* the record m read by the fields of the shape its own properties show
OwnShape(m) ==
  IF HasOwn(m.hs) \/ HasOwn(m.as) THEN NormalizeA(m)
  ELSE IF HasOwn(m.home_goals) \/ HasOwn(m.away_goals) THEN NormalizeB(m)
  ELSE NormalizeC(m)

\* C22: every record of the array is read by its own shape, the page's own shape
\* before the updater's before the provider's: the scores and the names of each
\* loaded match are those of the fields of that shape.
C22_ShapePerRecord ==
  pc = "loaded" =>
    \A i \in 1..Len(RawRecords) :
      /\ LEAGUE_DATA.matches[i].hs = OwnShape(RawRecords[i]).hs
      /\ LEAGUE_DATA.matches[i].as = OwnShape(RawRecords[i]).as
      /\ LEAGUE_DATA.matches[i].home = OwnShape(RawRecords[i]).home
      /\ LEAGUE_DATA.matches[i].away = OwnShape(RawRecords[i]).away

\* st without the matches that lack a score
ScoredOnly(st) ==
  [st EXCEPT !.allMatches = SelectSeq(@, HasScore), !.matches = SelectSeq(@, HasScore)]

\* the names of the rows of rows
RowNamesOf(rows) == {rows[i].name : i \in 1..Len(rows)}

\* the names computeTable gives the sides of the scored matches of list
ScoredNames(list) ==
  UNION { {normName(list[i].home), normName(list[i].away)} :
            i \in {j \in 1..Len(list) : HasScore(list[j])} }

\* renderTable has called computeTable: the state is as it was, the table is the
\* one of the scored matches alone, every row is of a side of a scored match, and
\* computeTable called again returns the same
C23_Step ==
  pc = "applied" /\ pc' = "rendered" =>
    /\ state' = state
    /\ table' = computeTable(ScoredOnly(state))
    /\ RowNamesOf(table') = ScoredNames(state.allMatches)
    /\ computeTable(state') = table'

\* C23: matches without both scores add nothing to computeTable - a team with
\* unscored matches only has no row, and the table is the one of the scored
\* matches alone - and computeTable leaves state.allMatches and state.matches
\* as they are and returns the same table when called again.
C23_UnscoredIgnored == [][C23_Step]_vars

\* a table with rows, rendered from matches of which one has no score and names
\* a side that has no row
C23_Witness ==
  /\ pc = "rendered"
  /\ table # <<>>
  /\ \E i \in 1..Len(state.allMatches) :
        /\ ~HasScore(state.allMatches[i])
        /\ normName(state.allMatches[i].home) \notin RowNamesOf(table)

\* the places at which computeTable meets the name k in list: twice the place of
\* the scored match, less one for its home side
SeenAt(list, k) ==
  { 2 * i - 1 : i \in {j \in 1..Len(list) : HasScore(list[j]) /\ normName(list[j].home) = k} }
  \cup { 2 * i : i \in {j \in 1..Len(list) : HasScore(list[j]) /\ normName(list[j].away) = k} }

FirstSeen(list, k) == CHOOSE n \in SeenAt(list, k) : \A o \in SeenAt(list, k) : n <= o

\* row a stands above row b by the stated order
Above(list, a, b) ==
  \/ a.pts > b.pts
  \/ a.pts = b.pts /\ a.gd > b.gd
  \/ a.pts = b.pts /\ a.gd = b.gd /\ a.gf > b.gf
  \/ a.pts = b.pts /\ a.gd = b.gd /\ a.gf = b.gf
       /\ FirstSeen(list, a.name) < FirstSeen(list, b.name)

\* C24: the rows of the table stand by points, then goal difference, then goals
\* for, each descending, and rows equal in all three in the order in which
\* computeTable first met their teams in the match list.
C24_TableOrder ==
  pc = "rendered" =>
    \A i \in 1..Len(table) : \A j \in 1..Len(table) :
      i < j => Above(state.allMatches, table[i], table[j])

\* four rows: the sides of the later match, which drew 1:1, above the sides of
\* the earlier, which drew 0:0, each pair in the order home, away
C24_Witness ==
  /\ pc = "rendered"
  /\ Len(table) = 4
  /\ Len(state.allMatches) = 2
  /\ table[1].name = normName(state.allMatches[2].home)
  /\ table[2].name = normName(state.allMatches[2].away)
  /\ table[3].name = normName(state.allMatches[1].home)
  /\ table[4].name = normName(state.allMatches[1].away)
  /\ table[1].pts = table[4].pts /\ table[1].gd = table[4].gd
  /\ StrLess(table[4].name, table[3].name)

\* the least of the numbers the round numbers of list name, Null when none does
MinToInt(list) ==
  LET nums == {toInt(list[i].round).n : i \in {j \in 1..Len(list) : toInt(list[j].round) # Null}}
  IN IF nums = {} THEN Null ELSE Num(CHOOSE m \in nums : \A k \in nums : m <= k)

\* what a step of the name-aware rectifier does to the round numbers, a round
\* number written as text counting as the number it names
C25_Step ==
  (fpc = "deduped" /\ fpc' = "rectified" /\ MinToInt(games) # Null) =>
    /\ MinToInt(games).n >= 1 =>
         \A i \in 1..Len(games) : toInt(games'[i].round) = toInt(games[i].round)
    /\ MinToInt(games).n = 0 =>
         \A i \in {j \in 1..Len(games) : toInt(games[j].round) # Null} :
           toInt(games'[i].round) = Num(toInt(games[i].round).n + 1)

\* C25: the rectifier of src/fetch-data.js changes no round number of a dataset
\* whose least round number is 1 or more, and adds exactly 1 to every round
\* number of a dataset whose least round number is 0.
C25_OnlyGlobalShift == [][C25_Step]_vars

\* C26: rectifying again what either rectifier has rectified changes no round
\* number and no currentRoundNumber.
C26_Idempotent ==
  /\ fpc = "normalized" =>
       /\ normalizeRoundNumbersIfZeroBased(games, leagueInfo).games = games
       /\ normalizeRoundNumbersIfZeroBased(games, leagueInfo).leagueInfo = leagueInfo
  /\ fpc = "rectified" =>
       /\ normalizeRoundNumbersByName(games, leagueInfo).games = games
       /\ normalizeRoundNumbersByName(games, leagueInfo).leagueInfo = leagueInfo

\* the requests made so far
Requests(l) == l.tried.ok + l.tried.failed

\* max(currentRoundNumber, 80)
MostTries ==
  IF leagueInfo.currentRoundNumber.t = "num" /\ leagueInfo.currentRoundNumber.n > 80
    THEN leagueInfo.currentRoundNumber.n ELSE 80

\* what one turn of the loop over the rounds does
C28_Step ==
  (fpc = "loop") =>
    /\ Requests(loop') = Requests(loop) + 1
    /\ Requests(loop') <= MostTries + 1
    /\ loop'.tried.failed # loop.tried.failed =>
         /\ loop'.tried.failed = loop.tried.failed + 1
         /\ loop'.emptyStreak = loop.emptyStreak /\ loop'.anyFound = loop.anyFound
         /\ allGames' = allGames
         /\ fpc' = "loop" \/ Requests(loop') = MostTries + 1
    /\ loop'.tried.ok # loop.tried.ok =>
         /\ allGames' # allGames => loop'.emptyStreak = 0 /\ loop'.anyFound
         /\ allGames' = allGames =>
              loop'.emptyStreak = loop.emptyStreak + 1 /\ loop'.anyFound = loop.anyFound
         /\ (fpc' # "loop" /\ Requests(loop') < MostTries + 1) <=>
              (loop'.anyFound /\ loop'.emptyStreak >= 8 /\ Requests(loop') < MostTries + 1)

\* C28: the loop over the rounds ends, after at most maxTry + 1 requests, maxTry
\* being max(currentRoundNumber, 80); it ends early exactly when a round with
\* games has been seen and 8 answers in a row were empty; an answer with games
\* sets the streak to 0; a failed request leaves the streak as it is, is
\* recorded in tried with ok: false and does not end the loop.
C28_LoopEnds == [][C28_Step]_vars /\ <>(fpc \notin {"start", "loop"})

\* the loop has ended early, after a failed request, a round with games and 8
\* empty answers
C28_Witness ==
  /\ fpc = "fetched"
  /\ loop.tried.failed = 1 /\ loop.tried.ok = 9
  /\ loop.anyFound /\ loop.emptyStreak = 8
  /\ Len(allGames) = 1

\* the places of the fetched games that have an id
WithIds == {i \in 1..Len(allGames) : allGames[i].id \notin {Null, Undef, Str(<<>>)}}

\* C29: after the de-dup of main() no two games of the list have one id and none
\* lacks an id; the game kept for an id is the last one fetched with it, and the
\* games are as many as the distinct ids fetched.
C29_GamesUnique ==
  fpc = "deduped" =>
    /\ \A i \in 1..Len(games) : \A j \in 1..Len(games) : games[i].id = games[j].id => i = j
    /\ \A i \in 1..Len(games) :
         \E k \in WithIds :
           /\ games[i] = allGames[k]
           /\ \A l \in WithIds : allGames[l].id = allGames[k].id => l <= k
    /\ Len(games) = Cardinality({allGames[i].id : i \in WithIds})

\* three games fetched, the first and the last with one id and the second
\* without an id: the last alone is kept
C29_Witness ==
  /\ fpc = "deduped"
  /\ Len(allGames) = 3
  /\ allGames[1].id = allGames[3].id /\ allGames[1] # allGames[3]
  /\ allGames[2].id = Null
  /\ games = <<allGames[3]>>

\* the orders in which k records can arrive
Perms(k) == {p \in [1..k -> 1..k] : \A i, j \in 1..k : p[i] = p[j] => i = j}

\* the run of dedupeMatches over list
RunOf(list) == DedupeMap(list, Refs(0, Len(list)), Len(list), Canon, LEAGUE_DATA.team)

\* the keys of the records a run leaves, and of those of them with both scores
KeysLeft(st) == {st.map[i].key : i \in 1..Len(st.map)}

ScoredLeft(st) == {st.map[i].key : i \in {j \in 1..Len(st.map) : HasScore(st.heap[st.map[j].ref])}}

\* the keys of the records of list, and of those of them with both scores
KeysGiven(list) == {KeysOf(list)[i] : i \in 1..Len(list)}

ScoredGiven(list) == {KeysOf(list)[i] : i \in {j \in 1..Len(list) : HasScore(list[j])}}

\* C27: in whatever order the records applyScores deduplicated arrive,
\* dedupeMatches leaves one record for each of their identity keys, and the
\* record of a key has both scores exactly when one of the records given for
\* that key has.
C27_OrderFree ==
  pc = "applied" =>
    /\ state.allMatches = MapValues(RunOf(LEAGUE_DATA.matches))
    /\ \A p \in Perms(Len(LEAGUE_DATA.matches)) :
         /\ KeysLeft(RunOf([i \in 1..Len(LEAGUE_DATA.matches) |-> LEAGUE_DATA.matches[p[i]]]))
              = KeysGiven(LEAGUE_DATA.matches)
         /\ ScoredLeft(RunOf([i \in 1..Len(LEAGUE_DATA.matches) |-> LEAGUE_DATA.matches[p[i]]]))
              = ScoredGiven(LEAGUE_DATA.matches)

\* three records of one fixture arrived, the one with half a score first, the
\* scored one second, an unscored one with the kickoff time last: one record is
\* left, with both scores
C27_Witness ==
  /\ pc = "applied"
  /\ Len(LEAGUE_DATA.matches) = 3
  /\ LEAGUE_DATA.matches[1].hs # Null /\ LEAGUE_DATA.matches[1].as = Null
  /\ HasScore(LEAGUE_DATA.matches[2])
  /\ LEAGUE_DATA.matches[3].hs = Null /\ LEAGUE_DATA.matches[3].time = T18
  /\ Len(state.allMatches) = 1
  /\ HasScore(state.allMatches[1])
====
